---------------------------- MODULE Spec2Model ----------------------------
(***************************************************************************)
(* A model of the Academic-Advisor core: the timetable conflict detector,  *)
(* the enrollment paths of the UI, the intent classifier and the schedule  *)
(* synthesizer.  Text is modelled by TLA+ strings, searched and rewritten   *)
(* character by character as Python's str operations do.                   *)
(***************************************************************************)
EXTENDS Integers, Sequences, FiniteSets, TLC

VARIABLES
    \* timetable conflict detector (enhanced_ai_advisor.py)
    course_list,        \* the list of course dicts a caller has assembled
    conflict_call,      \* the last detector call: its arguments and its result
    \* enrollment (app.py, ui_components.py)
    enrolled_courses,   \* st.session_state.enrolled_courses[student_id]
    student_data,       \* st.session_state.user_data[student_id]['enrolled_courses']
    last_enroll,        \* the last enrollment attempt and its outcome
    \* intent classifier
    query,              \* the text handed to _analyze_query_intent (or None)
    fragments,          \* how many fragments the caller has put into query
    intent,             \* the label it returned
    \* schedule synthesizer
    courses_df,         \* the course table
    schedule_call,      \* the last generate_smart_schedule call and its result
    \* relevance scorer and recommendations
    advisor_call,       \* the last _score_courses or get_intelligent_recommendations
                        \* call and its result
    advisor,            \* the EnhancedAIAdvisor object: whether its table is loaded,
                        \* and its LLMAdvisor's client, rate window and cache
    \* rate limiter of the text-generation backend
    now,                \* what time.time() returns, in seconds
    llm_advisor,        \* an LLMAdvisor object: client, request_timestamps, cache
    llm_log             \* the last generate_response call on it, and the times at
                        \* which requests passed the limiter and reached the API

vars == <<course_list, conflict_call, enrolled_courses, student_data, last_enroll,
          query, fragments, intent, courses_df, schedule_call, advisor_call,
          advisor, now, llm_advisor, llm_log>>

conflictVars == <<course_list, conflict_call>>
enrollVars   == <<enrolled_courses, student_data, last_enroll>>
intentVars   == <<query, fragments, intent>>
scheduleVars == <<courses_df, schedule_call>>
advisorVars  == <<courses_df, advisor_call, advisor>>
limiterVars  == <<now, llm_advisor, llm_log>>

\* what an action of one component leaves alone
notConflict  == <<enrollVars, intentVars, scheduleVars, advisor_call, advisor, limiterVars>>
notEnroll    == <<conflictVars, intentVars, scheduleVars, advisor_call, advisor, limiterVars>>
notIntent    == <<conflictVars, enrollVars, scheduleVars, advisor_call, advisor, limiterVars>>
notSchedule  == <<conflictVars, enrollVars, intentVars, advisor_call, advisor, limiterVars>>
notAdvisor   == <<conflictVars, enrollVars, intentVars, schedule_call, limiterVars>>
notLimiter   == <<conflictVars, enrollVars, intentVars, scheduleVars, advisor_call, advisor>>

NoCall == [op |-> "none"]

\* LLMAdvisor.__init__: no request counted, nothing cached
NewLLMAdvisor(has_key) ==
    [client |-> has_key, request_timestamps |-> <<>>, cached |-> FALSE]

\* no generate_response call made yet
NoRequests == [last |-> NoCall, passed |-> <<>>, api_calls |-> <<>>]

\* an advisor whose table is loaded and whose text generation is switched off
\* (use_llm=False, or the openai package is not installed)
RuleBasedAdvisor ==
    [use_llm |-> FALSE, client |-> FALSE, window_full |-> FALSE, cache |-> {},
     table |-> "frame"]

\* a str argument, and Python's None
Text(s) == [is_none |-> FALSE, text |-> s]
None    == [is_none |-> TRUE, text |-> ""]

-----------------------------------------------------------------------------
(* Python str and dict operations *)

\* kw in s
Contains(s, kw) ==
    \E i \in 1..(Len(s) - Len(kw) + 1) : SubSeq(s, i, i + Len(kw) - 1) = kw

\* s.startswith(p)
StartsWith(s, p) == Len(p) <= Len(s) /\ SubSeq(s, 1, Len(p)) = p

\* s.find(kw): the first 1-based position of kw in s, 0 when absent
Find(s, kw) ==
    IF Contains(s, kw)
    THEN CHOOSE i \in 1..(Len(s) - Len(kw) + 1) :
            /\ SubSeq(s, i, i + Len(kw) - 1) = kw
            /\ \A j \in 1..(i - 1) : SubSeq(s, j, j + Len(kw) - 1) # kw
    ELSE 0

\* d.get(k, default) for a dict d modelled as a function on its keys
Get(d, k, default) == IF k \in DOMAIN d THEN d[k] ELSE default

\* Python truthiness of a string
Truthy(s) == s # ""

\* s.split(':')[0]
BeforeColon(s) == IF Contains(s, ":") THEN SubSeq(s, 1, Find(s, ":") - 1) ELSE s

-----------------------------------------------------------------------------
(* Timetable conflict detector *)

MaxCourses == 3

CLASS_SLOTS == <<"09:00-12:00", "13:00-16:00", "17:00-20:00">>

\* The course dicts the detector is exercised with: the name and the time
\* slot may each be missing, and the slot may be the empty string.
CourseNames == {"A", "B"}
SlotValues  == {"", CLASS_SLOTS[1], CLASS_SLOTS[2]}

CourseDicts ==
    { [course_name |-> n, class_time |-> t] : n \in CourseNames, t \in SlotValues }
    \cup { [class_time |-> t] : t \in SlotValues }
    \cup { [course_name |-> n] : n \in CourseNames }

RECURSIVE conflicting_loop_first(_, _, _)
\* a variant that stops at the first conflicting course
conflicting_loop_first(enrolled, new_time, i) ==
    IF i > Len(enrolled) THEN <<>>
    ELSE LET existing_time == Get(enrolled[i], "class_time", "")
         IN  IF Truthy(existing_time) /\ existing_time = new_time
             THEN <<Get(enrolled[i], "course_name", "Unknown Course")>>
             ELSE conflicting_loop_first(enrolled, new_time, i + 1)

\* a variant that compares the new course with the last enrolled course only
conflicting_loop_last(enrolled, new_time, i) ==
    LET existing_time == Get(enrolled[Len(enrolled)], "class_time", "")
    IN  IF Truthy(existing_time) /\ existing_time = new_time
        THEN <<Get(enrolled[Len(enrolled)], "course_name", "Unknown Course")>>
        ELSE <<>>

RECURSIVE conflicting_loop(_, _, _)
\* the for loop of check_timetable_conflict from position i on
conflicting_loop(enrolled, new_time, i) ==
    IF i > Len(enrolled) THEN <<>>
    ELSE LET existing_time == Get(enrolled[i], "class_time", "")
             rest == conflicting_loop(enrolled, new_time, i + 1)
         IN  IF Truthy(existing_time) /\ existing_time = new_time
             THEN <<Get(enrolled[i], "course_name", "Unknown Course")>> \o rest
             ELSE rest

check_timetable_conflict(enrolled, new_course) ==
    IF enrolled = <<>> THEN <<FALSE, <<>>>>
    ELSE LET new_time == Get(new_course, "class_time", "")
         IN  IF ~Truthy(new_time) THEN <<FALSE, <<>>>>
             ELSE LET conflicting == conflicting_loop(enrolled, new_time, 1)
                  IN  <<Len(conflicting) > 0, conflicting>>

RECURSIVE time_group_keys(_, _)
\* the keys of time_groups in insertion order after the first i courses
time_group_keys(courses, i) ==
    IF i = 0 THEN <<>>
    ELSE LET before == time_group_keys(courses, i - 1)
             time == Get(courses[i], "class_time", "")
         IN  IF Truthy(time) /\ \A k \in 1..Len(before) : before[k] # time
             THEN Append(before, time)
             ELSE before

RECURSIVE time_group(_, _, _)
\* time_groups[time]: the names of the courses in that slot, in list order
time_group(courses, time, i) ==
    IF i > Len(courses) THEN <<>>
    ELSE IF Get(courses[i], "class_time", "") = time
         THEN <<Get(courses[i], "course_name", "Unknown")>>
                  \o time_group(courses, time, i + 1)
         ELSE time_group(courses, time, i + 1)

RECURSIVE group_pairs_adjacent(_, _, _, _)
\* a variant that pairs only neighbours in the group
group_pairs_adjacent(names, time, i, j) ==
    IF i >= Len(names) THEN <<>>
    ELSE <<<<names[i], names[i + 1], time>>>>
             \o group_pairs_adjacent(names, time, i + 1, i + 2)

RECURSIVE group_pairs(_, _, _, _)
\* the nested loops over i < j of one group
group_pairs(names, time, i, j) ==
    IF i > Len(names) THEN <<>>
    ELSE IF j > Len(names) THEN group_pairs(names, time, i + 1, i + 2)
         ELSE <<<<names[i], names[j], time>>>> \o group_pairs(names, time, i, j + 1)

RECURSIVE all_groups_pairs(_, _, _)
all_groups_pairs(courses, keys, k) ==
    IF k > Len(keys) THEN <<>>
    ELSE LET names == time_group(courses, keys[k], 1)
         IN  (IF Len(names) > 1 THEN group_pairs(names, keys[k], 1, 2) ELSE <<>>)
                 \o all_groups_pairs(courses, keys, k + 1)

get_all_timetable_conflicts(courses) ==
    all_groups_pairs(courses, time_group_keys(courses, Len(courses)), 1)

\* a caller appends a course dict to the list it is assembling
AddCourse ==
    /\ conflict_call.op = "none"
    /\ Len(course_list) < MaxCourses
    /\ \E c \in CourseDicts : course_list' = Append(course_list, c)
    /\ UNCHANGED <<conflict_call, notConflict>>

CheckTimetableConflict ==
    /\ conflict_call.op = "none"
    /\ \E c \in CourseDicts :
          conflict_call' = [op |-> "check", enrolled |-> course_list, new_course |-> c,
                            result |-> check_timetable_conflict(course_list, c)]
    /\ UNCHANGED <<course_list, notConflict>>

GetAllTimetableConflicts ==
    /\ conflict_call.op = "none"
    /\ conflict_call' = [op |-> "scan", courses |-> course_list,
                         result |-> get_all_timetable_conflicts(course_list)]
    /\ UNCHANGED <<course_list, notConflict>>

\* the caller drops the result and starts over
NewCourseList ==
    /\ conflict_call.op # "none"
    /\ course_list' = <<>>
    /\ conflict_call' = NoCall
    /\ UNCHANGED notConflict


\* every component at rest: nothing assembled, nothing called
InitIdle ==
    /\ course_list = <<>>
    /\ conflict_call = NoCall
    /\ enrolled_courses = <<>>
    /\ student_data = <<>>
    /\ last_enroll = NoCall
    /\ query = Text("")
    /\ fragments = 0
    /\ intent = "none"
    /\ courses_df = <<>>
    /\ schedule_call = NoCall
    /\ advisor_call = NoCall
    /\ advisor = RuleBasedAdvisor
    /\ now = 0
    /\ llm_advisor = NewLLMAdvisor(FALSE)
    /\ llm_log = NoRequests

NextConflict ==
    \/ AddCourse
    \/ CheckTimetableConflict
    \/ GetAllTimetableConflicts
    \/ NewCourseList

SpecConflict == InitIdle /\ [][NextConflict]_vars

-----------------------------------------------------------------------------
(* Claims about the conflict detector *)

SlotOf(c) == IF "class_time" \in DOMAIN c THEN c.class_time ELSE ""

\* the positions of `enrolled` whose slot is the candidate's non-empty slot
EqualSlotPositions(enrolled, candidate) ==
    { i \in 1..Len(enrolled) :
        SlotOf(candidate) # "" /\ SlotOf(enrolled[i]) = SlotOf(candidate) }

\* the k-th smallest element of a set of positions
KthPosition(S, k) == CHOOSE m \in S : Cardinality({x \in S : x < m}) = k - 1

\* C1: check_timetable_conflict(enrolled, candidate) returns (True, names)
\* exactly when some enrolled course has a class_time equal to the
\* candidate's non-empty class_time; names then lists the names of all and
\* only those enrolled courses, in enrolled order (a course dict without a
\* name is listed as "Unknown Course"); otherwise it returns (False, []).
C1_CheckConflictExact ==
    conflict_call.op = "check" =>
        LET E     == conflict_call.enrolled
            hits  == EqualSlotPositions(E, conflict_call.new_course)
            flag  == conflict_call.result[1]
            names == conflict_call.result[2]
        IN  /\ flag = (hits # {})
            /\ Len(names) = Cardinality(hits)
            /\ \A k \in 1..Len(names) :
                  LET c == E[KthPosition(hits, k)]
                  IN  names[k] = IF "course_name" \in DOMAIN c
                                 THEN c.course_name ELSE "Unknown Course"
            /\ (hits = {} => conflict_call.result = <<FALSE, <<>>>>)

\* two enrolled courses of different names share the candidate's slot and a
\* third one, between or around them, does not
C1_Witness ==
    /\ conflict_call.op = "check"
    /\ conflict_call.result[1] = TRUE
    /\ Len(conflict_call.result[2]) = 2
    /\ conflict_call.result[2][1] # conflict_call.result[2][2]
    /\ Len(conflict_call.enrolled) = 3

\* the pairs of list positions that share a non-empty slot
SharedSlotPairs(L) ==
    { p \in (1..Len(L)) \X (1..Len(L)) :
        p[1] < p[2] /\ SlotOf(L[p[1]]) # "" /\ SlotOf(L[p[1]]) = SlotOf(L[p[2]]) }

ScanName(c) == IF "course_name" \in DOMAIN c THEN c.course_name ELSE "Unknown"

PairTriple(L, p) == <<ScanName(L[p[1]]), ScanName(L[p[2]]), SlotOf(L[p[1]])>>

\* C3: get_all_timetable_conflicts(course_list) emits a triple
\* (nameA, nameB, slot) for every pair of list positions whose courses have
\* the same non-empty class_time and nothing else: every triple occurs as
\* often as there are such pairs producing it, and a slot holding n courses
\* contributes n*(n-1)/2 triples.
C3_AllPairsExact ==
    conflict_call.op = "scan" =>
        LET L == conflict_call.courses
            R == conflict_call.result
            pairs == SharedSlotPairs(L)
        IN  /\ Len(R) = Cardinality(pairs)
            /\ \A k \in 1..Len(R) : \E p \in pairs : R[k] = PairTriple(L, p)
            /\ \A p \in pairs :
                  Cardinality({k \in 1..Len(R) : R[k] = PairTriple(L, p)})
                      = Cardinality({q \in pairs : PairTriple(L, q) = PairTriple(L, p)})
            /\ \A s \in SlotValues \ {""} :
                  LET n == Cardinality({i \in 1..Len(L) : SlotOf(L[i]) = s})
                  IN  2 * Cardinality({k \in 1..Len(R) : R[k][3] = s}) = n * (n - 1)
            /\ (Len(L) = 2 /\ pairs # {} => Len(R) = 1)
            /\ ((Len(L) = 3 /\ \A i, j \in 1..3 : (i # j => SlotOf(L[i]) # SlotOf(L[j])))
                    => R = <<>>)

\* three courses in one slot: three triples
C3_Witness ==
    /\ conflict_call.op = "scan"
    /\ Len(conflict_call.courses) = 3
    /\ Len(conflict_call.result) = 3

-----------------------------------------------------------------------------
(* Enrollment: the course table and the five enrollment paths of the UI *)

MaxTable    == 4
MaxEnrolled == 3

DIGITS == "0123456789"

\* str.lower() of one character
LowerChar(c) ==
    CASE c = "A" -> "a" [] c = "B" -> "b" [] c = "C" -> "c" [] c = "D" -> "d"
      [] c = "E" -> "e" [] c = "F" -> "f" [] c = "G" -> "g" [] c = "H" -> "h"
      [] c = "I" -> "i" [] c = "J" -> "j" [] c = "K" -> "k" [] c = "L" -> "l"
      [] c = "M" -> "m" [] c = "N" -> "n" [] c = "O" -> "o" [] c = "P" -> "p"
      [] c = "Q" -> "q" [] c = "R" -> "r" [] c = "S" -> "s" [] c = "T" -> "t"
      [] c = "U" -> "u" [] c = "V" -> "v" [] c = "W" -> "w" [] c = "X" -> "x"
      [] c = "Y" -> "y" [] c = "Z" -> "z" [] OTHER -> c

RECURSIVE Lower(_)
\* s.lower(): every character lowered, the two halves of s in turn
Lower(s) ==
    IF Len(s) <= 1 THEN LowerChar(s)
    ELSE LET half == Len(s) \div 2
         IN  Lower(SubSeq(s, 1, half)) \o Lower(SubSeq(s, half + 1, Len(s)))

RECURSIVE Str(_)
\* str(n) for n >= 0
Str(n) == IF n < 10 THEN SubSeq(DIGITS, n + 1, n + 1)
          ELSE Str(n \div 10) \o SubSeq(DIGITS, (n % 10) + 1, (n % 10) + 1)

RECURSIVE ZFill(_, _)
\* s.zfill(width)
ZFill(s, width) == IF Len(s) >= width THEN s ELSE ZFill("0" \o s, width)

\* the programs of the source rows, in file order, and their codes
Programs == <<"Computer Science", "Data Science">>

program_codes(program) ==
    CASE program = "Computer Science" -> "CS"
      [] program = "Data Science" -> "DS"
      [] program = "Cyber Security" -> "CY"
      [] program = "Fintech" -> "FT"
      [] OTHER -> "GE"

\* _generate_course_id for the row with 0-based index i
generate_course_id(program, i) == program_codes(program) \o "-" \o ZFill(Str(i + 101), 3)

\* the row the loader builds at 0-based index i
LoadedRow(i) ==
    LET program == Programs[(i % Len(Programs)) + 1]
    IN  [course_id   |-> generate_course_id(program, i),
         course_name |-> "Course " \o Str(i + 1),
         category    |-> program,
         class_time  |-> CLASS_SLOTS[(i % Len(CLASS_SLOTS)) + 1]]

\* the table the loader builds from n source rows
LoadedTable(n) == [k \in 1..n |-> LoadedRow(k - 1)]

\* courses_df[courses_df['course_id'] == id]: the matching rows, in order
RowsWithId(df, id) == SelectSeq(df, LAMBDA r : r.course_id = id)

\* the major of the student whose session is modelled
StudentMajor == "Computer Science"

\* the type the schedule gives a course on its module card: a course of the
\* student's major is mandatory, any other is secondary or audit
CardTypes(row) ==
    IF Contains(Lower(row.category), Lower(StudentMajor))
    THEN {"mandatory"} ELSE {"secondary", "audit"}

\* x in list
InList(list, x) == \E k \in 1..Len(list) : list[k] = x

\* any(course_id in str(e) for e in enrolled_list)
AnyContains(list, id) == \E k \in 1..Len(list) : Contains(list[k], id)

\* the id an entry is looked up by when the mode suffix is split off
\* (enroll_course, enroll_course_enhanced, the card's Enroll button)
SplitId(entry) == BeforeColon(entry)

\* the id an entry is looked up by when it is used as it stands
\* (the catalog's Enroll Now button)
RawId(entry) == entry

\* the entries of `list` that a conflict loop finds in the slot new_time,
\* looking each entry up in df by its id with the mode suffix split off
ConflictingEntries(df, list, new_time) ==
    SelectSeq(list, LAMBDA e :
        LET rows == RowsWithId(df, SplitId(e))
        IN  rows # <<>> /\ rows[1].class_time = new_time)

\* the same loop looking each entry up as it stands
ConflictingRawEntries(df, list, new_time) ==
    SelectSeq(list, LAMBDA e :
        LET rows == RowsWithId(df, RawId(e))
        IN  rows # <<>> /\ rows[1].class_time = new_time)

Attempt(op, row, before, outcome) ==
    [op |-> op, course_id |-> row.course_id, class_time |-> row.class_time,
     before |-> before, outcome |-> outcome]

InitEnroll ==
    /\ course_list = <<>>
    /\ conflict_call = NoCall
    /\ enrolled_courses = <<>>
    /\ student_data = <<>>
    /\ last_enroll = NoCall
    /\ query = Text("")
    /\ fragments = 0
    /\ intent = "none"
    /\ courses_df = LoadedTable(MaxTable)
    /\ schedule_call = NoCall
    /\ advisor_call = NoCall
    /\ advisor = RuleBasedAdvisor
    /\ now = 0
    /\ llm_advisor = NewLLMAdvisor(FALSE)
    /\ llm_log = NoRequests

\* app.py enroll_course(course)
enroll_course ==
    \E k \in 1..Len(courses_df) :
        LET course == courses_df[k]
            new_course_time == course.class_time
            conflicting_courses ==
                IF Truthy(new_course_time) /\ new_course_time # "TBD"
                THEN ConflictingEntries(courses_df, enrolled_courses, new_course_time)
                ELSE <<>>
        IN  /\ Len(enrolled_courses) < MaxEnrolled
            /\ IF InList(enrolled_courses, course.course_id)
               THEN /\ last_enroll' = Attempt("enroll_course", course, enrolled_courses, "already")
                    /\ UNCHANGED <<enrolled_courses, student_data>>
               ELSE IF conflicting_courses # <<>>
               THEN /\ last_enroll' = Attempt("enroll_course", course, enrolled_courses, "conflict")
                    /\ UNCHANGED <<enrolled_courses, student_data>>
               ELSE /\ enrolled_courses' = Append(enrolled_courses, course.course_id)
                    /\ student_data' = Append(student_data, course.course_id)
                    /\ last_enroll' = Attempt("enroll_course", course, enrolled_courses, "enrolled")
            /\ UNCHANGED <<courses_df, schedule_call, conflictVars, intentVars,
                         advisor_call, advisor, limiterVars>>

\* ui_components.py enroll_course_enhanced(course, student_id, course_type)
enroll_course_enhanced ==
    \E k \in 1..Len(courses_df), course_type \in {"mandatory", "secondary", "audit"} :
        LET course == courses_df[k]
            new_course_time == course.class_time
            conflicting_courses ==
                IF Truthy(new_course_time) /\ new_course_time # "TBD"
                THEN ConflictingEntries(courses_df, enrolled_courses, new_course_time)
                ELSE <<>>
        IN  /\ Len(enrolled_courses) < MaxEnrolled
            /\ IF InList(enrolled_courses, course.course_id)
               THEN /\ last_enroll' = Attempt("enroll_course_enhanced", course, enrolled_courses, "already")
                    /\ UNCHANGED enrolled_courses
               ELSE IF conflicting_courses # <<>>
               THEN /\ last_enroll' = Attempt("enroll_course_enhanced", course, enrolled_courses, "conflict")
                    /\ UNCHANGED enrolled_courses
               ELSE /\ enrolled_courses' =
                           Append(enrolled_courses, course.course_id \o ":" \o course_type)
                    /\ last_enroll' = Attempt("enroll_course_enhanced", course, enrolled_courses, "enrolled")
            /\ UNCHANGED <<student_data, courses_df, schedule_call, conflictVars, intentVars,
                         advisor_call, advisor, limiterVars>>

\* render_course_card_catalog_style: the Confirm button of a secondary or
\* audit course of module 1 or 2 that is not shown as enrolled
CardConfirm ==
    \E k \in 1..Len(courses_df), module_num \in 1..4, enroll_type \in {"Enroll", "Audit"} :
        LET course == courses_df[k]
        IN  /\ Len(enrolled_courses) < MaxEnrolled
            /\ module_num <= 2
            /\ \E course_type \in CardTypes(course) : course_type \in {"secondary", "audit"}
            /\ ~AnyContains(enrolled_courses, course.course_id)
            /\ enrolled_courses' =
                   Append(enrolled_courses, course.course_id \o ":" \o Lower(enroll_type))
            /\ last_enroll' = Attempt("CardConfirm", course, enrolled_courses, "enrolled")
            /\ UNCHANGED <<student_data, courses_df, schedule_call, conflictVars, intentVars,
                         advisor_call, advisor, limiterVars>>

\* render_course_card_catalog_style: the Enroll button of a mandatory course
\* of module 1 or 2 that is not shown as enrolled
CardEnroll ==
    \E k \in 1..Len(courses_df), module_num \in 1..4 :
        LET course == courses_df[k]
            current_course_time == RowsWithId(courses_df, course.course_id)[1].class_time
            conflicts ==
                IF Truthy(current_course_time)
                THEN ConflictingEntries(courses_df, enrolled_courses, current_course_time)
                ELSE <<>>
        IN  /\ Len(enrolled_courses) < MaxEnrolled
            /\ module_num <= 2
            /\ "mandatory" \in CardTypes(course)
            /\ ~AnyContains(enrolled_courses, course.course_id)
            /\ IF conflicts # <<>>
               THEN /\ last_enroll' = Attempt("CardEnroll", course, enrolled_courses, "conflict")
                    /\ UNCHANGED enrolled_courses
               ELSE /\ enrolled_courses' = Append(enrolled_courses, course.course_id \o ":enroll")
                    /\ last_enroll' = Attempt("CardEnroll", course, enrolled_courses, "enrolled")
            /\ UNCHANGED <<student_data, courses_df, schedule_call, conflictVars, intentVars,
                         advisor_call, advisor, limiterVars>>

\* render_course_catalog: the Enroll Now button of a course of the current
\* module that is not in the enrolled list
CatalogEnrollNow ==
    \E k \in 1..Len(courses_df), is_in_current_module \in BOOLEAN :
        LET course == courses_df[k]
            current_course_time == course.class_time
            conflicts ==
                IF Truthy(current_course_time)
                THEN ConflictingRawEntries(courses_df, enrolled_courses, current_course_time)
                ELSE <<>>
        IN  /\ Len(enrolled_courses) < MaxEnrolled
            /\ ~InList(enrolled_courses, course.course_id)
            /\ is_in_current_module
            /\ IF conflicts # <<>>
               THEN /\ last_enroll' = Attempt("CatalogEnrollNow", course, enrolled_courses, "conflict")
                    /\ UNCHANGED enrolled_courses
               ELSE /\ enrolled_courses' = Append(enrolled_courses, course.course_id)
                    /\ last_enroll' = Attempt("CatalogEnrollNow", course, enrolled_courses, "enrolled")
            /\ UNCHANGED <<student_data, courses_df, schedule_call, conflictVars, intentVars,
                         advisor_call, advisor, limiterVars>>

NextEnroll ==
    \/ enroll_course
    \/ enroll_course_enhanced
    \/ CardConfirm
    \/ CardEnroll
    \/ CatalogEnrollNow

SpecEnroll == InitEnroll /\ [][NextEnroll]_vars

\* the slot of the course an entry of the enrolled list stands for
EntrySlot(entry) ==
    LET rows == RowsWithId(courses_df, BeforeColon(entry))
    IN  IF rows = <<>> THEN "" ELSE rows[1].class_time

\* C2: a student's enrolled list never holds two different courses whose
\* class_time is the same non-empty slot, whichever enrollment path was used;
\* an attempt into an occupied slot leaves the list unchanged.
C2_NoTwoCoursesInOneSlot ==
    \A i, j \in 1..Len(enrolled_courses) :
        (/\ BeforeColon(enrolled_courses[i]) # BeforeColon(enrolled_courses[j])
         /\ EntrySlot(enrolled_courses[i]) # "")
            => EntrySlot(enrolled_courses[i]) # EntrySlot(enrolled_courses[j])

\* render_active_classes: the mode read off an entry of the enrolled list,
\* the text after the colon, or 'enroll' for a bare id
entry_mode(entry) ==
    IF Contains(entry, ":")
    THEN SubSeq(entry, Find(entry, ":") + 1, Len(entry))
    ELSE "enroll"

\* the badge render_active_classes shows for a mode
mode_badge(mode) == IF mode = "enroll" THEN "ENROLLED" ELSE "AUDIT"

\* C27: after any sequence of enrollment actions every entry of the enrolled
\* list is a bare course id or course_id:mode with mode enroll or audit, so
\* that the real-time hub shows the AUDIT badge for audit enrollments only.
C27_EntriesEnrollOrAudit ==
    \A i \in 1..Len(enrolled_courses) :
        /\ entry_mode(enrolled_courses[i]) \in {"enroll", "audit"}
        /\ mode_badge(entry_mode(enrolled_courses[i])) = "AUDIT"
               <=> entry_mode(enrolled_courses[i]) = "audit"

-----------------------------------------------------------------------------
(* Intent classifier: EnhancedAIAdvisor._analyze_query_intent *)

\* s.strip(), for blanks
RECURSIVE Strip(_)
Strip(s) ==
    IF s = "" THEN ""
    ELSE IF SubSeq(s, 1, 1) = " " THEN Strip(SubSeq(s, 2, Len(s)))
    ELSE IF SubSeq(s, Len(s), Len(s)) = " " THEN Strip(SubSeq(s, 1, Len(s) - 1))
    ELSE s

\* s.split(): the maximal runs of non-blank characters, in order
RECURSIVE Split(_)
Split(s) ==
    LET t == Strip(s)
    IN  IF t = "" THEN <<>>
        ELSE IF Contains(t, " ")
             THEN <<SubSeq(t, 1, Find(t, " ") - 1)>> \o Split(SubSeq(t, Find(t, " "), Len(t)))
             ELSE <<t>>

\* s.replace(old, new): every non-overlapping occurrence, left to right
RECURSIVE Replace(_, _, _)
Replace(s, old, new) ==
    LET p == Find(s, old)
    IN  IF p = 0 THEN s
        ELSE SubSeq(s, 1, p - 1) \o new \o Replace(SubSeq(s, p + Len(old), Len(s)), old, new)

\* any(kw in s for kw in keywords)
AnyIn(s, keywords) == \E k \in 1..Len(keywords) : Contains(s, keywords[k])

greeting_keywords ==
    <<"hello", "hi", "hey", "good morning", "good afternoon", "good evening",
      "greetings", "howdy">>

how_are_you_keywords ==
    <<"how are you", "how r u", "how are u", "hows it going", "how is it going",
      "whats up", "what's up", "sup">>

\* the expansions dict, in insertion order
expansions ==
    <<<<"ml", "machine learning">>, <<"ai", "artificial intelligence">>,
      <<"ds", "data science">>, <<"cs", "computer science">>,
      <<"cyber", "cybersecurity">>, <<"webdev", "web development">>,
      <<"db", "database">>, <<"dl", "deep learning">>, <<"nn", "neural network">>,
      <<"machne", "machine">>, <<"learing", "learning">>, <<"lecurer", "lecturer">>,
      <<"instuctor", "instructor">>, <<"proffesor", "professor">>,
      <<"scince", "science">>, <<"engeneer", "engineer">>, <<"devloper", "developer">>>>

RECURSIVE expand_from(_, _)
\* the loop over expansions.items() from entry k on, applied to the buffer s
expand_from(s, k) ==
    IF k > Len(expansions) THEN s
    ELSE expand_from(IF Contains(s, expansions[k][1])
                     THEN Replace(s, expansions[k][1], expansions[k][2])
                     ELSE s, k + 1)

specific_prep_keywords ==
    <<"what to prepare for", "what should i prepare for", "how to prepare for",
      "prepare for", "get ready for", "before taking", "what do i need for",
      "prerequisites for", "ready for">>

duration_keywords ==
    <<"how long", "duration", "how many years", "length", "year", "years",
      "program duration", "bachelor duration", "master duration", "how much time",
      "time to complete", "how many", "long is", "take to complete", "time required">>

attendance_consequence_keywords ==
    <<"what if", "what happen", "skip class", "miss class", "dont attend",
      "don't attend", "absent", "too many absence", "skip mandatory",
      "miss mandatory", "late to class", "miss too many", "fail because">>

attendance_words == <<"class", "mandatory", "attendance", "absent", "skip", "miss", "late">>

issues_keywords ==
    <<"have issue", "have problem", "need help", "having trouble", "struggling",
      "cant attend", "can't attend", "emergency", "conflict", "sick", "medical">>

lecturer_keywords ==
    <<"lecturer", "lecturers", "professor", "instructor", "instructors", "teacher",
      "teachers", "prof", "faculty", "tutor", "who teaches", "who teach">>

explanation_keywords ==
    <<"mandatory", "audit", "secondary", "course type", "what is mandatory",
      "what is audit", "explain">>

attendance_failure_words == <<"skip", "miss", "dont", "don't", "happen", "what if">>

prep_keywords ==
    <<"before class", "preparation", "study tips", "prepare well", "how to study">>

course_indicators == <<"course", "class", "learn", "study", "teach", "training", "program">>

topic_keywords ==
    <<"machine learning", "ml", "artificial intelligence", "ai", "data science",
      "computer science", "cybersecurity", "cyber", "security", "web development",
      "web", "database", "db", "deep learning", "neural network", "programming",
      "software", "data", "python", "java", "javascript", "software development",
      "web dev", "mobile", "app development", "frontend", "backend", "fullstack",
      "business", "design", "ux", "ui", "marketing", "entrepreneurship", "analytics">>

single_word_topics ==
    <<"ml", "ai", "software", "business", "design", "marketing", "data", "web",
      "mobile", "python", "java", "javascript", "security", "cyber", "database",
      "programming">>

two_word_topics ==
    <<"computer science", "data science", "machine learning", "web development",
      "software development", "deep learning", "artificial intelligence",
      "cyber security", "app development", "digital marketing">>

not_general_words ==
    <<"schedule", "career", "module", "time", "timing", "morning", "afternoon", "evening">>

schedule_keywords ==
    <<"time", "timing", "schedule", "when", "morning", "afternoon", "evening">>

career_keywords == <<"career", "job", "future", "work", "industry", "professional">>

module_keywords == <<"module", "semester", "this module", "next module", "planning">>

program_query_patterns ==
    <<"what is in", "whats in", "courses in", "what courses", "show me",
      "tell me about", "information about", "about the", "in the", "major",
      "program", "degree", "what can i study", "what will i learn">>

program_names ==
    <<"computer science", "data science", "cyber security", "cybersecurity",
      "front-end development", "frontend", "interaction design", "design",
      "digital marketing", "marketing", "high-tech entrepreneurship",
      "entrepreneurship", "business", "digital transformation",
      "product management", "fintech", "applied data and computer science">>

\* the length of the common run of a from position i and b from position j
\* (0-based), inside a[..ahi) and b[..bhi)
RECURSIVE RunLength(_, _, _, _, _, _)
RunLength(a, i, ahi, b, j, bhi) ==
    IF i < ahi /\ j < bhi /\ SubSeq(a, i + 1, i + 1) = SubSeq(b, j + 1, j + 1)
    THEN 1 + RunLength(a, i + 1, ahi, b, j + 1, bhi)
    ELSE 0

\* SequenceMatcher.find_longest_match(alo, ahi, blo, bhi): the longest
\* matching block, the one starting earliest in a and then earliest in b
find_longest_match(a, alo, ahi, b, blo, bhi) ==
    LET starts == (alo..(ahi - 1)) \X (blo..(bhi - 1))
        size(p) == RunLength(a, p[1], ahi, b, p[2], bhi)
    IN  IF starts = {} \/ \A p \in starts : size(p) = 0 THEN <<alo, blo, 0>>
        ELSE LET best == CHOOSE p \in starts :
                            \A q \in starts :
                                \/ size(q) < size(p)
                                \/ /\ size(q) = size(p)
                                   /\ \/ p[1] < q[1]
                                      \/ p[1] = q[1] /\ p[2] <= q[2]
             IN  <<best[1], best[2], size(best)>>

\* the total size of SequenceMatcher.get_matching_blocks() in the windows
RECURSIVE matching_size(_, _, _, _, _, _)
matching_size(a, alo, ahi, b, blo, bhi) ==
    LET m == find_longest_match(a, alo, ahi, b, blo, bhi)
    IN  IF m[3] = 0 THEN 0
        ELSE m[3] + matching_size(a, alo, m[1], b, blo, m[2])
                  + matching_size(a, m[1] + m[3], ahi, b, m[2] + m[3], bhi)

\* SequenceMatcher(None, a, b).ratio() >= 0.75, that is 2*M/T >= 3/4
\* (an empty pair of strings has ratio 1.0)
RatioAtLeastThreshold(a, b) ==
    IF Len(a) + Len(b) = 0 THEN TRUE
    ELSE 8 * matching_size(a, 0, Len(a), b, 0, Len(b)) >= 3 * (Len(a) + Len(b))

\* _fuzzy_match(word, keyword_list) with the default threshold
fuzzy_match(word, keyword_list) ==
    LET word_lower == Lower(word)
    IN  \E k \in 1..Len(keyword_list) :
            \/ Contains(word_lower, keyword_list[k])
            \/ Contains(keyword_list[k], word_lower)
            \/ RatioAtLeastThreshold(word_lower, keyword_list[k])

\* the greeting rule, on the lower-cased and stripped query
is_greeting(q) ==
    \/ \E k \in 1..Len(greeting_keywords) :
          \/ greeting_keywords[k] = q
          \/ StartsWith(q, greeting_keywords[k] \o " ")
          \/ StartsWith(q, greeting_keywords[k] \o ",")
    \/ AnyIn(q, how_are_you_keywords)

\* query_lower after "Apply all expansions"
expanded_query(q) == expand_from(q, 1)

\* the rules that return before the short-query rule, on the expanded text
prep_rule(q)       == AnyIn(q, specific_prep_keywords)
duration_rule(q)   == AnyIn(q, duration_keywords)
attendance_rule(q) == AnyIn(q, attendance_consequence_keywords) /\ AnyIn(q, attendance_words)
issues_rule(q)     == AnyIn(q, issues_keywords)
lecturer_rule(q)   ==
    \/ AnyIn(q, lecturer_keywords)
    \/ \E w \in 1..Len(Split(q)) : fuzzy_match(Split(q)[w], lecturer_keywords)
explanation_rule(q) == AnyIn(q, explanation_keywords) /\ ~AnyIn(q, attendance_failure_words)
general_prep_rule(q) == AnyIn(q, prep_keywords)
short_topic_rule(q) ==
    /\ Len(Split(q)) <= 3
    /\ (AnyIn(q, single_word_topics) \/ AnyIn(q, two_word_topics))
course_topic_rule(q) ==
    /\ (AnyIn(q, course_indicators) \/ AnyIn(q, topic_keywords))
    /\ ~AnyIn(q, not_general_words)
program_rule(q) == AnyIn(q, program_names) /\ AnyIn(q, program_query_patterns)

\* a cascade that asks for schedule wording before the short-query rule
late_rules_schedule_first(q) ==
    IF AnyIn(q, schedule_keywords) THEN "schedule_info"
    ELSE IF short_topic_rule(q) THEN "general_info"
    ELSE IF course_topic_rule(q) THEN "general_info"
    ELSE IF AnyIn(q, career_keywords) THEN "career_guidance"
    ELSE IF AnyIn(q, module_keywords) THEN "module_planning"
    ELSE IF program_rule(q) THEN "program_info"
    ELSE "course_recommendation"

\* the cascade from the short-query rule on
late_rules(q) ==
    IF short_topic_rule(q) THEN "general_info"
    ELSE IF course_topic_rule(q) THEN "general_info"
    ELSE IF AnyIn(q, schedule_keywords) THEN "schedule_info"
    ELSE IF AnyIn(q, career_keywords) THEN "career_guidance"
    ELSE IF AnyIn(q, module_keywords) THEN "module_planning"
    ELSE IF program_rule(q) THEN "program_info"
    ELSE "course_recommendation"

\* the cascade from the specific-preparation rule up to the general
\* preparation rule, then the later rules
rules_after_expansion(q) ==
    IF prep_rule(q) THEN "specific_class_preparation"
    ELSE IF duration_rule(q) THEN "program_duration"
    ELSE IF attendance_rule(q) THEN "attendance_consequences"
    ELSE IF issues_rule(q) THEN "student_issues"
    ELSE IF lecturer_rule(q) THEN "lecturer_info"
    ELSE IF explanation_rule(q) THEN "course_type_explanation"
    ELSE IF general_prep_rule(q) THEN "preparation_advice"
    ELSE late_rules(q)

\* a variant that looks for a greeting only when no other rule fired
analyze_text_greeting_last(text) ==
    LET query_lower == Strip(Lower(text))
        label == rules_after_expansion(expanded_query(query_lower))
    IN  IF label = "course_recommendation" /\ is_greeting(query_lower) THEN "greeting"
        ELSE label

\* what the function does with a str argument that is not empty
analyze_text(text) ==
    LET query_lower == Strip(Lower(text))
    IN  IF is_greeting(query_lower) THEN "greeting"
        ELSE rules_after_expansion(expanded_query(query_lower))

\* a variant without the "if not query" guard: None has no lower()
analyze_query_intent_unguarded(q) ==
    IF q.is_none THEN "AttributeError" ELSE analyze_text(q.text)

_analyze_query_intent(q) ==
    IF q.is_none \/ q.text = "" THEN "course_recommendation"
    ELSE analyze_text(q.text)


MaxFragments == 3

\* the caller puts one more fragment into the query text: the first one as
\* it is, a later one after one of the separators
TypeFragment(First, Rest, Separators) ==
    /\ intent = "none"
    /\ ~query.is_none
    /\ fragments < MaxFragments
    /\ IF fragments = 0
       THEN \E f \in First : query' = Text(query.text \o f)
       ELSE \E f \in Rest, sep \in Separators : query' = Text(query.text \o sep \o f)
    /\ fragments' = fragments + 1
    /\ UNCHANGED <<intent, notIntent>>

\* the caller starts the text with a blank
TypeBlank ==
    /\ intent = "none"
    /\ ~query.is_none
    /\ fragments = 0
    /\ fragments < MaxFragments
    /\ query' = Text(" ")
    /\ fragments' = 1
    /\ UNCHANGED <<intent, notIntent>>

\* _analyze_query_intent(query) on the text as it stands
AnalyzeQueryIntent ==
    /\ intent = "none"
    /\ intent' = _analyze_query_intent(query)
    /\ UNCHANGED <<query, fragments, notIntent>>

\* _analyze_query_intent(None)
AnalyzeNone ==
    /\ intent = "none"
    /\ fragments = 0
    /\ query' = None
    /\ intent' = _analyze_query_intent(None)
    /\ UNCHANGED <<fragments, notIntent>>

\* the next request starts from an empty text
NewQuery ==
    /\ intent # "none"
    /\ query' = Text("")
    /\ fragments' = 0
    /\ intent' = "none"
    /\ UNCHANGED notIntent

\* support wording, preparation wording, lecturer wording, a topic, and the
\* single letters a mistyped word glues in front of a phrase
CascadeFragments == {"n", "need help", "d", "before taking", "professor"}

TypeCascadeFragment == TypeFragment(CascadeFragments, CascadeFragments, {"", " "})

NextCascade ==
    \/ TypeCascadeFragment
    \/ TypeBlank
    \/ AnalyzeQueryIntent
    \/ AnalyzeNone
    \/ NewQuery

SpecCascade == InitIdle /\ [][NextCascade]_vars

\* one opening phrase for every rule of the cascade (two of them misspelt,
\* one capitalised), and what may follow it
TotalOpeners ==
    {"hello", "before taking", "duration", "what if", "need help", "professor",
     "audit", "study tips", "python", "evening", "career", "semester",
     "tell me about fintech", "xyz", "Proffesor", "teachr"}
TotalFollowers == {"class", "ml", "d"}

TypeTotalFragment == TypeFragment(TotalOpeners, TotalFollowers, {"", " "})

NextTotal ==
    \/ TypeTotalFragment
    \/ TypeBlank
    \/ AnalyzeQueryIntent
    \/ AnalyzeNone
    \/ NewQuery

SpecTotal == InitIdle /\ [][NextTotal]_vars

\* topic vocabulary and the cues of other rules, as separate words
TopicFragments ==
    {"ml", "data science", "lecturer", "duration", "audit", "evening", "career"}

TypeTopicFragment == TypeFragment(TopicFragments, TopicFragments, {" "})

NextTopic ==
    \/ TypeTopicFragment
    \/ AnalyzeQueryIntent
    \/ NewQuery

SpecTopic == InitIdle /\ [][NextTopic]_vars

\* every supported greeting phrase, and what may follow or precede one
GreetingOpeners ==
    {"hello", "hi", "hey", "good morning", "good afternoon", "good evening",
     "greetings", "howdy", "how are you", "how r u", "how are u", "hows it going",
     "how is it going", "whats up", "what's up", "sup", "Hello", "ml"}
GreetingFollowers == {"ml", "sup"}

TypeGreetingFragment == TypeFragment(GreetingOpeners, GreetingFollowers, {"", " ", ","})

NextGreeting ==
    \/ TypeGreetingFragment
    \/ AnalyzeQueryIntent
    \/ NewQuery

SpecGreeting == InitIdle /\ [][NextGreeting]_vars

\* course-type wording, attendance-failure wording and the word that makes
\* an attendance phrase of it
ExplanationFragments ==
    {"mandatory", "audit", "explain", "skip", "what if", "happen", "class"}

TypeExplanationFragment == TypeFragment(ExplanationFragments, ExplanationFragments, {" "})

NextExplanation ==
    \/ TypeExplanationFragment
    \/ AnalyzeQueryIntent
    \/ NewQuery

SpecExplanation == InitIdle /\ [][NextExplanation]_vars

\* ordinary short words, a lecturer keyword and a misspelt one
LecturerFragments == {"to", "a", "in", "the", "go", "professor", "teachr"}

TypeLecturerFragment == TypeFragment(LecturerFragments, LecturerFragments, {" "})

NextLecturer ==
    \/ TypeLecturerFragment
    \/ AnalyzeQueryIntent
    \/ NewQuery

SpecLecturer == InitIdle /\ [][NextLecturer]_vars

-----------------------------------------------------------------------------
(* Claims about the intent classifier *)

\* the query as the claims read it: lower-cased and trimmed
Asked == Strip(Lower(query.text))

Classified == intent # "none" /\ ~query.is_none

\* C4: a support request is never classified as a course search: every query
\* that contains a student-issue phrase is classified as neither
\* course_recommendation nor general_info.
C4_SupportNeverCourseSearch ==
    (Classified /\ AnyIn(Asked, issues_keywords))
        => intent \notin {"course_recommendation", "general_info"}

\* C5: every non-greeting query that contains both a specific-class-
\* preparation phrase and lecturer wording is classified as
\* specific_class_preparation, not lecturer_info.
C5_PrepBeforeLecturer ==
    (/\ Classified
     /\ intent # "greeting"
     /\ AnyIn(Asked, specific_prep_keywords)
     /\ AnyIn(Asked, lecturer_keywords))
        => intent = "specific_class_preparation"

IntentLabels ==
    {"greeting", "specific_class_preparation", "program_duration",
     "attendance_consequences", "student_issues", "lecturer_info",
     "course_type_explanation", "preparation_advice", "general_info",
     "schedule_info", "career_guidance", "module_planning", "program_info",
     "course_recommendation"}

\* C8: classify_intent is total: every text, None, the empty string and
\* blank text included, gets exactly one label of the fixed intent set, and
\* None and the empty string get course_recommendation.
C8_ClassifierTotal ==
    intent # "none" =>
        /\ intent \in IntentLabels
        /\ (query.is_none \/ query.text = "" => intent = "course_recommendation")

\* None was classified
C8_Witness == intent = "course_recommendation" /\ query.is_none


\* the short-query rule's condition on a text
ShortTopicQuery(q) ==
    /\ Len(Split(q)) <= 3
    /\ \/ \E k \in 1..Len(single_word_topics) : Contains(q, single_word_topics[k])
       \/ \E k \in 1..Len(two_word_topics) : Contains(q, two_word_topics[k])

\* C6 as stated: every query of at most 3 words that contains a single- or
\* two-word topic entry is classified general_info, whatever other cue
\* (lecturer, duration, schedule, career, course-type wording) it contains.
C6_ShortTopicOverridesEveryCue ==
    (Classified /\ ShortTopicQuery(Asked)) => intent = "general_info"

\* C6 amended: a query that no earlier rule of the cascade claims (greeting,
\* specific preparation, program duration, attendance consequences, student
\* issues, lecturer wording or a token close to it, course-type explanation,
\* general preparation) and whose text after abbreviation expansion has at
\* most 3 words and contains a topic entry is classified general_info,
\* overriding the later cues (schedule, career, module and program wording).
C6_ShortTopicOverridesLaterCues ==
    Classified =>
        LET q == expanded_query(Asked)
        IN  (/\ ~is_greeting(Asked)
             /\ ~prep_rule(q) /\ ~duration_rule(q) /\ ~attendance_rule(q)
             /\ ~issues_rule(q) /\ ~lecturer_rule(q) /\ ~explanation_rule(q)
             /\ ~general_prep_rule(q)
             /\ ShortTopicQuery(q))
                => intent = "general_info"

\* a short topic query with schedule wording was classified general_info
C6_Witness ==
    /\ Classified
    /\ intent = "general_info"
    /\ ShortTopicQuery(expanded_query(Asked))
    /\ AnyIn(expanded_query(Asked), schedule_keywords)

\* the greeting phrases of the claim
C7_SupportedGreeting(q) ==
    \/ \E kw \in {"hello", "hi", "hey", "good morning", "good afternoon",
                  "good evening", "greetings", "howdy"} :
          q = kw \/ StartsWith(q, kw \o " ") \/ StartsWith(q, kw \o ",")
    \/ \E p \in {"how are you", "how r u", "how are u", "hows it going",
                 "how is it going", "whats up", "what's up", "sup"} :
          Contains(q, p)

\* C7: every supported greeting phrase (a query equal to a greeting word,
\* starting with one followed by a blank or a comma, or containing a
\* how-are-you phrase) is classified greeting, never course_recommendation.
C7_GreetingFirst ==
    (Classified /\ C7_SupportedGreeting(Asked)) => intent = "greeting"

\* a greeting followed by a topic abbreviation was classified greeting
C7_Witness ==
    /\ Classified
    /\ intent = "greeting"
    /\ StartsWith(Asked, "hello,")
    /\ Contains(Asked, "ml")

\* C24: a query with course-type explanation wording together with
\* attendance-failure wording is not classified as course_type_explanation:
\* it is routed to attendance_consequences.
C24_SuppressedGoesToAttendance ==
    ( /\ Classified
      /\ AnyIn(Asked, <<"mandatory", "audit", "secondary", "course type", "explain">>)
      /\ AnyIn(Asked, <<"skip", "miss", "dont", "don't", "happen", "what if">>) )
        => intent = "attendance_consequences"

\* lecturer wording: a lecturer keyword as a substring of the text, or a
\* token whose similarity ratio to a lecturer keyword is at least 0.75
LecturerWording(q) ==
    \/ AnyIn(q, lecturer_keywords)
    \/ \E w \in 1..Len(Split(q)), k \in 1..Len(lecturer_keywords) :
           RatioAtLeastThreshold(Split(q)[w], lecturer_keywords[k])

\* C25: the lecturer rule fires only on lecturer wording: a query is
\* classified lecturer_info only if it contains a lecturer keyword or one of
\* its tokens is within ratio 0.75 of one; ordinary words far from every
\* keyword ("to", "a", "in") are not classified lecturer_info.
C25_LecturerOnlyOnLecturerWording ==
    (Classified /\ intent = "lecturer_info") => LecturerWording(expanded_query(Asked))

-----------------------------------------------------------------------------
(* Schedule synthesizer: generate_smart_schedule and _create_module *)

MaxRows == 10

CLASS_TIMES ==
    << [slot |-> 1, time |-> "9:00 AM - 12:20 PM", start_hour |-> 9],
       [slot |-> 2, time |-> "1:00 PM - 4:20 PM", start_hour |-> 13],
       [slot |-> 3, time |-> "5:00 PM - 8:20 PM", start_hour |-> 17] >>

\* the rows of the two source files that a corpus is made of, bachelor rows
\* before master rows as the loader concatenates them
SourceRows ==
    << [Program |-> "Computer Science", Level |-> "Bachelor", Course |-> "Programming", Credits |-> 3],
       [Program |-> "Data Science", Level |-> "Bachelor", Course |-> "Statistics", Credits |-> 3],
       [Program |-> "Computer Science", Level |-> "Bachelor", Course |-> "Capstone Project", Credits |-> 3],
       [Program |-> "Data Science", Level |-> "Master", Course |-> "Deep Learning", Credits |-> 3] >>

\* the row _process_courses builds from a source row at 0-based index i
ProcessedRow(i, src) ==
    [course_id   |-> generate_course_id(src.Program, i),
     Course      |-> src.Course,
     course_name |-> src.Course,
     category    |-> src.Program,
     Level       |-> src.Level,
     credits     |-> src.Credits,
     class_time  |-> CLASS_SLOTS[(i % Len(CLASS_SLOTS)) + 1]]

\* which source row a table row was built from
SourceIndex(row) ==
    CHOOSE k \in 1..Len(SourceRows) :
        /\ SourceRows[k].Program = row.category
        /\ SourceRows[k].Level = row.Level
        /\ SourceRows[k].Course = row.Course

\* df.head(n)
head(df, n) == SubSeq(df, 1, IF Len(df) < n THEN Len(df) ELSE n)

\* df.sample(frac=1, random_state=seed).reset_index(drop=True): a permutation
\* of the rows fixed by the seed and the number of rows.  The generator's own
\* permutation is not reproduced; the rotations stand for it.
sample(df, random_state) ==
    IF df = <<>> THEN df
    ELSE LET r == random_state % Len(df)
         IN  SubSeq(df, r + 1, Len(df)) \o SubSeq(df, 1, r)

\* the row with the 'course_type' column set
WithType(row, type) ==
    [f \in DOMAIN row \cup {"course_type"} |->
        IF f = "course_type" THEN type ELSE row[f]]

OfType(df, type) == SelectSeq(df, LAMBDA r : r.course_type = type)

capstone_keywords == <<"capstone", "seminar", "thesis", "final project", "graduation project">>

\* the complementary pool's labels: secondary, the last int(total * 0.3) audit
label_other(other) ==
    LET total_other == Len(other)
        audit_count == (total_other * 3) \div 10
    IN  [i \in 1..total_other |->
            WithType(other[i], IF i > total_other - audit_count
                               THEN "audit" ELSE "secondary")]

Max(a, b) == IF a > b THEN a ELSE b
Min(a, b) == IF a < b THEN a ELSE b

\* the distribution used when no course carries a type
distribute(major_courses) ==
    LET total == Len(major_courses)
        mandatory_count == Max(3, Min(4, total \div 5))
        secondary_count == total \div 2
    IN  [i \in 1..total |->
            WithType(major_courses[i],
                     IF i <= mandatory_count THEN "mandatory"
                     ELSE IF i <= mandatory_count + secondary_count THEN "secondary"
                     ELSE "audit")]

\* a module that takes two courses of the mandatory bucket
mandatory_positions_pair(k, n) ==
    IF k <= 4 /\ n >= k + 1 THEN <<k - 1, k>>
    ELSE IF k <= 4 /\ n >= k THEN <<k - 1>> ELSE <<>>

\* the positions (0-based, as passed to iloc) of the mandatory bucket that
\* module k takes when the bucket holds n courses
mandatory_positions(k, n) ==
    IF k <= 4 /\ n >= k THEN <<k - 1>> ELSE <<>>

\* the positions of the secondary bucket that module k takes
secondary_positions(k, n) ==
    CASE k = 1 -> IF n >= 4 THEN <<0, 1, 2, 3>>
                  ELSE IF n >= 3 THEN <<0, 1, 2>>
                  ELSE IF n >= 2 THEN <<0, 1>>
                  ELSE IF n = 1 THEN <<0>> ELSE <<>>
      [] k = 2 -> IF n >= 8 THEN <<4, 5, 6, 7>>
                  ELSE IF n >= 6 THEN <<4, 5, 6>>
                  ELSE IF n >= 5 THEN <<4, 5>>
                  ELSE IF n = 5 THEN <<4>> ELSE <<>>
      [] k = 3 -> IF n >= 12 THEN <<8, 9, 10, 11>>
                  ELSE IF n >= 11 THEN <<8, 9, 10>>
                  ELSE IF n >= 10 THEN <<8, 9>>
                  ELSE IF n >= 9 THEN <<8>> ELSE <<>>
      [] OTHER -> LET first == 3 * k
                  IN  IF n >= first + 3 THEN <<first, first + 1, first + 2>>
                      ELSE IF n >= first + 2 THEN <<first, first + 1>>
                      ELSE IF n >= first + 1 THEN <<first>> ELSE <<>>

\* the positions of the audit bucket that module k takes
audit_positions(k, n) ==
    IF k <= 6 /\ n > k - 1 THEN <<k - 1>> ELSE <<>>

\* the condition under which module k is built at all
module_condition(k, all_courses, mandatory, secondary) ==
    CASE k = 1 -> all_courses # <<>>
      [] k = 2 -> Len(mandatory) > 1 \/ Len(secondary) > 4
      [] k = 3 -> Len(mandatory) > 2 \/ Len(secondary) > 8
      [] k = 4 -> Len(mandatory) > 3 \/ Len(secondary) > 12
      [] k = 5 -> Len(secondary) > 15
      [] k = 6 -> Len(secondary) > 18
      [] k = 7 -> Len(secondary) > 21

module_name(k) ==
    CASE k <= 3 -> "Module " \o Str(k)
      [] k <= 6 -> "Module " \o Str(k) \o " (Year 2)"
      [] OTHER  -> "Module " \o Str(k) \o " (Year 3)"

\* the weeks after `now` at which module k starts
module_start_week(k) ==
    CASE k = 1 -> 0 [] k = 2 -> 3 [] k = 3 -> 6
      [] k = 4 -> 52 [] k = 5 -> 55 [] k = 6 -> 58 [] k = 7 -> 104

module_description(k, major) ==
    CASE k = 1 -> "Foundation courses for " \o major
      [] k = 2 -> "Core " \o major \o " development"
      [] k = 3 -> major \o " specialization and exploration"
      [] k = 4 -> "Year 2: Advanced " \o major \o " concepts"
      [] k = 5 -> "Year 2: " \o major \o " specialization"
      [] k = 6 -> "Year 2: Capstone preparation"
      [] k = 7 -> "Year 3: Advanced specialization"

\* every position is inside the bucket, so that iloc raises nothing
InRange(bucket, positions) ==
    \A i \in 1..Len(positions) : positions[i] < Len(bucket)

\* [bucket.iloc[p] for p in positions]
ilocs(bucket, positions) ==
    [i \in 1..Len(positions) |-> bucket[positions[i] + 1]]

RECURSIVE total_credits(_)
total_credits(courses) ==
    IF courses = <<>> THEN 0
    ELSE Get(Head(courses), "credits", 3) + total_credits(Tail(courses))

\* a module whose courses alternate between the first two time slots only
_create_module_two_slots(name, courses, start_week, description, module_number) ==
    LET courses_with_times ==
            [idx \in 1..Len(courses) |->
                LET time_slot == CLASS_TIMES[((idx - 1) % 2) + 1]
                IN  [f \in DOMAIN courses[idx] \cup {"time_slot", "slot_number"} |->
                        IF f = "time_slot" THEN time_slot.time
                        ELSE IF f = "slot_number" THEN time_slot.slot
                        ELSE courses[idx][f]]]
    IN  [module_name   |-> name,
         module_number |-> module_number,
         courses       |-> courses_with_times,
         start_date    |-> start_week,
         end_date      |-> start_week + 3,
         total_credits |-> total_credits(courses_with_times),
         description   |-> description]

_create_module(name, courses, start_week, description, module_number) ==
    LET courses_with_times ==
            [idx \in 1..Len(courses) |->
                LET time_slot == CLASS_TIMES[((idx - 1) % 3) + 1]
                IN  [f \in DOMAIN courses[idx] \cup {"time_slot", "slot_number"} |->
                        IF f = "time_slot" THEN time_slot.time
                        ELSE IF f = "slot_number" THEN time_slot.slot
                        ELSE courses[idx][f]]]
    IN  [module_name   |-> name,
         module_number |-> module_number,
         courses       |-> courses_with_times,
         start_date    |-> start_week,
         end_date      |-> start_week + 3,
         total_credits |-> total_credits(courses_with_times),
         description   |-> description]

\* a filter that leaves the completed courses in
keep_completed(df, completed_courses) == df

\* df[~df['course_id'].isin(completed_courses)], applied when the list is
\* neither None nor empty
without_completed(df, completed_courses) ==
    IF completed_courses # {}
    THEN SelectSeq(df, LAMBDA r : r.course_id \notin completed_courses)
    ELSE df

\* the shuffled pool with every course labelled mandatory
label_major(shuffled_major) ==
    [i \in 1..Len(shuffled_major) |-> WithType(shuffled_major[i], "mandatory")]

\* the primary and the complementary pool of a major among the courses of
\* the student's level: capstone courses out, the whole filtered corpus for
\* a major that matches no course, completed courses out, both shuffled
\* with hash(major) % 100 and labelled
course_pools(level_courses, major, completed_courses, random_state) ==
    LET early_module_courses ==
            SelectSeq(level_courses, LAMBDA r : ~AnyIn(Lower(r.Course), capstone_keywords))
        of_major == SelectSeq(early_module_courses,
                              LAMBDA r : Contains(Lower(r.category), Lower(major)))
        of_others == SelectSeq(early_module_courses,
                               LAMBDA r : ~Contains(Lower(r.category), Lower(major)))
        major_or_all == IF of_major = <<>> THEN early_module_courses ELSE of_major
    IN  [major_courses |->
             label_major(sample(without_completed(major_or_all, completed_courses),
                                random_state)),
         other_courses |->
             label_other(sample(without_completed(of_others, completed_courses),
                                random_state + 1))]

\* all_courses and its mandatory, secondary and audit buckets
course_buckets(major_courses, other_courses) ==
    LET all_courses == head(major_courses, 10) \o head(other_courses, 10)
        untyped == /\ OfType(all_courses, "mandatory") = <<>>
                   /\ OfType(all_courses, "secondary") = <<>>
                   /\ OfType(all_courses, "audit") = <<>>
    IN  [all_courses |-> all_courses,
         mandatory |-> IF untyped THEN OfType(distribute(major_courses), "mandatory")
                       ELSE head(OfType(all_courses, "mandatory"), 10),
         secondary |-> IF untyped THEN OfType(distribute(major_courses), "secondary")
                       ELSE head(OfType(all_courses, "secondary"), 10),
         audit     |-> IF untyped THEN OfType(distribute(major_courses), "audit")
                       ELSE head(OfType(all_courses, "audit"), 6)]

\* the modules built out of the buckets, or the exception raised on the way
build_modules(major, all_courses, mandatory, secondary, audit, limit_modules) ==
    LET in_range(k) ==
            /\ InRange(mandatory, mandatory_positions(k, Len(mandatory)))
            /\ InRange(secondary, secondary_positions(k, Len(secondary)))
            /\ InRange(audit, audit_positions(k, Len(audit)))
        m_courses(k) ==
            ilocs(mandatory, mandatory_positions(k, Len(mandatory)))
                \o ilocs(secondary, secondary_positions(k, Len(secondary)))
                \o ilocs(audit, audit_positions(k, Len(audit)))
        built(k) == module_condition(k, all_courses, mandatory, secondary)
        index_error == \E k \in 1..7 : built(k) /\ ~in_range(k)
        numbers == SelectSeq([k \in 1..7 |-> k], LAMBDA k : built(k) /\ m_courses(k) # <<>>)
        modules ==
            [i \in 1..Len(numbers) |->
                _create_module(module_name(numbers[i]), m_courses(numbers[i]),
                               module_start_week(numbers[i]),
                               module_description(numbers[i], major), numbers[i])]
    IN  IF index_error THEN [raises |-> "IndexError"]
        ELSE [raises |-> "none", modules |-> head(modules, limit_modules)]

\* the two labelled pools generate_smart_schedule makes of the table for a
\* student: the courses of the student's level (the whole table when the
\* level has none), split by major
labelled_pools(df, student_profile, completed_courses, hash_major) ==
    LET major   == Get(student_profile, "major", "Computer Science")
        program == Get(student_profile, "program", "Bachelor's Degree")
        level   == IF Contains(Lower(program), "bachelor") THEN "bachelor" ELSE "master"
        of_level == SelectSeq(df, LAMBDA r : Lower(r.Level) = level)
        level_courses == IF of_level = <<>> THEN df ELSE of_level
    IN  course_pools(level_courses, major, completed_courses, hash_major % 100)

\* generate_smart_schedule(student_profile, enrolled_courses=...,
\* completed_courses=..., limit_modules=...)
\* on the table df; hash_major is hash(major), which the interpreter fixes
\* per process.  The result is the returned list, or the exception raised.
generate_smart_schedule(df, student_profile, enrolled_courses_arg, completed_courses, limit_modules, hash_major) ==
    LET major   == Get(student_profile, "major", "Computer Science")
        pools == labelled_pools(df, student_profile, completed_courses, hash_major)
        buckets == course_buckets(pools.major_courses, pools.other_courses)
    IN  IF df = <<>> THEN [raises |-> "none", modules |-> <<>>]
        ELSE build_modules(major, buckets.all_courses, buckets.mandatory,
                           buckets.secondary, buckets.audit, limit_modules)

\* the student profiles of the callers: a bachelor's student whose major is
\* left to the default, a major no course belongs to (the program left to
\* the default), and a master's student
Profiles ==
    { [program |-> "Bachelor's Degree"],
      [major |-> "Design"],
      [major |-> "Data Science", program |-> "Master's Degree"] }

\* completed_courses: none, or the first course of the table
CompletedLists(df) == {{}} \cup (IF df = <<>> THEN {} ELSE {{df[1].course_id}})

\* enrolled_courses: none, or the last course of the table
EnrolledLists(df) == {{}} \cup (IF df = <<>> THEN {} ELSE {{df[Len(df)].course_id}})

Limits == {2, 4}

\* values of hash(major): the interpreter salts string hashes per process
Hashes == {0, 205}

\* the loader reads one more source row into the table; rows come grouped
\* in the order of SourceRows
AppendSourceRow ==
    /\ schedule_call = NoCall
    /\ Len(courses_df) < MaxRows
    /\ \E k \in 1..Len(SourceRows) :
          /\ courses_df # <<>> => SourceIndex(courses_df[Len(courses_df)]) <= k
          /\ courses_df' = Append(courses_df, ProcessedRow(Len(courses_df), SourceRows[k]))
    /\ UNCHANGED <<schedule_call, notSchedule>>

GenerateSmartSchedule ==
    /\ schedule_call = NoCall
    /\ \E p \in Profiles, enrolled \in EnrolledLists(courses_df),
          completed \in CompletedLists(courses_df),
          limit \in Limits, h \in Hashes :
          schedule_call' =
              [op |-> "generate_smart_schedule", student_profile |-> p,
               enrolled_courses |-> enrolled,
               completed_courses |-> completed, limit_modules |-> limit,
               hash_major |-> h,
               result |-> generate_smart_schedule(courses_df, p, enrolled, completed,
                                                    limit, h)]
    /\ UNCHANGED <<courses_df, notSchedule>>

\* the caller has taken the result
ScheduleReturn ==
    /\ schedule_call # NoCall
    /\ schedule_call' = NoCall
    /\ UNCHANGED <<courses_df, notSchedule>>

NextSchedule ==
    \/ AppendSourceRow
    \/ GenerateSmartSchedule
    \/ ScheduleReturn

SpecSchedule == InitIdle /\ [][NextSchedule]_vars

-----------------------------------------------------------------------------
(* Claims about the schedule synthesizer *)

Scheduled == schedule_call # NoCall

RECURSIVE module_course_ids(_)
\* the course ids of a list of modules, module after module
module_course_ids(modules) ==
    IF modules = <<>> THEN <<>>
    ELSE [i \in 1..Len(Head(modules).courses) |-> Head(modules).courses[i].course_id]
            \o module_course_ids(Tail(modules))

\* C9: generate_smart_schedule never errors, whatever the sizes of the
\* primary and complementary pools: every call returns a list of modules.
C9_NeverErrors ==
    Scheduled => schedule_call.result.raises = "none"

\* C10: across the modules one generate_smart_schedule call returns, every
\* course id appears at most once, also when the major matches no course.
C10_NoCourseUsedTwice ==
    (Scheduled /\ schedule_call.result.raises = "none") =>
        LET ids == module_course_ids(schedule_call.result.modules)
        IN  \A i, j \in 1..Len(ids) : i # j => ids[i] # ids[j]

\* C11: the schedule filters by completion only: no returned module holds a
\* course whose id is in completed_courses, and the enrolled list has no
\* effect: the same call with no enrolled list gives the same result.
C11_CompletedOnly ==
    Scheduled =>
        /\ schedule_call.result.raises = "none" =>
               \A id \in schedule_call.completed_courses :
                   ~InList(module_course_ids(schedule_call.result.modules), id)
        /\ schedule_call.result =
               generate_smart_schedule(courses_df, schedule_call.student_profile, {},
                                       schedule_call.completed_courses,
                                       schedule_call.limit_modules,
                                       schedule_call.hash_major)

\* a call with a completed course of the student's level and an enrolled
\* course returned modules that hold the enrolled course
C11_Witness ==
    /\ Scheduled
    /\ schedule_call.result.raises = "none"
    /\ schedule_call.completed_courses # {}
    /\ schedule_call.completed_courses # schedule_call.enrolled_courses
    /\ \E id \in schedule_call.enrolled_courses :
           InList(module_course_ids(schedule_call.result.modules), id)
    /\ generate_smart_schedule(courses_df, schedule_call.student_profile, {}, {},
                               schedule_call.limit_modules, schedule_call.hash_major)
           # schedule_call.result

\* C13: every call returns a list of at most limit_modules modules in
\* increasing module_number, and the empty list when the table is empty.
C13_AtMostLimitModules ==
    Scheduled =>
        /\ schedule_call.result.raises = "none"
        /\ LET modules == schedule_call.result.modules
           IN  /\ Len(modules) <= schedule_call.limit_modules
               /\ \A i, j \in 1..Len(modules) :
                      i < j => modules[i].module_number < modules[j].module_number
               /\ courses_df = <<>> => modules = <<>>

\* the pools and buckets of the call on record
CallPools ==
    labelled_pools(courses_df, schedule_call.student_profile,
                   schedule_call.completed_courses, schedule_call.hash_major)

CallBuckets == course_buckets(CallPools.major_courses, CallPools.other_courses)

BucketIds(bucket) == {bucket[i].course_id : i \in 1..Len(bucket)}

CourseTypes == {"mandatory", "secondary", "audit"}

\* the courses of the modules of a result, module after module
RECURSIVE selected_courses(_)
selected_courses(modules) ==
    IF modules = <<>> THEN <<>>
    ELSE Head(modules).courses \o selected_courses(Tail(modules))

\* C21: type bucketing.  Every primary-pool course is labelled mandatory,
\* every complementary-pool course secondary except the last int(0.3*n)
\* positions after the shuffle, which are audit; no course id is in two of
\* the three buckets, and every course of a returned module has one of the
\* three types and belongs to the bucket of that type only.
C21_BucketsPartition ==
    (Scheduled /\ courses_df # <<>>) =>
        LET major_courses == CallPools.major_courses
            other_courses == CallPools.other_courses
            n == Len(other_courses)
            b == CallBuckets
        IN  /\ \A i \in 1..Len(major_courses) : major_courses[i].course_type = "mandatory"
            /\ \A i \in 1..n :
                   other_courses[i].course_type =
                       IF i > n - ((3 * n) \div 10) THEN "audit" ELSE "secondary"
            /\ BucketIds(b.mandatory) \cap BucketIds(b.secondary) = {}
            /\ BucketIds(b.mandatory) \cap BucketIds(b.audit) = {}
            /\ BucketIds(b.secondary) \cap BucketIds(b.audit) = {}
            /\ schedule_call.result.raises = "none" =>
                   LET selected == selected_courses(schedule_call.result.modules)
                   IN  \A i \in 1..Len(selected) :
                           /\ selected[i].course_type \in CourseTypes
                           /\ \A t \in CourseTypes :
                                  selected[i].course_id \in BucketIds(b[t])
                                      <=> t = selected[i].course_type

\* C22: the ratio holds per module: every module generate_smart_schedule
\* returns has at most 1 mandatory, at most 4 secondary and at most 1 audit
\* course, hence at most 6 courses.
C22_RatioPerModule ==
    (Scheduled /\ schedule_call.result.raises = "none") =>
        \A m \in 1..Len(schedule_call.result.modules) :
            LET courses == schedule_call.result.modules[m].courses
            IN  /\ Len(OfType(courses, "mandatory")) <= 1
                /\ Len(OfType(courses, "secondary")) <= 4
                /\ Len(OfType(courses, "audit")) <= 1
                /\ Len(courses) <= 6

\* a call returned a full module, 1 mandatory + 4 secondary + 1 audit, and a
\* second module after it
C22_Witness ==
    /\ Scheduled
    /\ schedule_call.result.raises = "none"
    /\ Len(schedule_call.result.modules) >= 2
    /\ \E m \in 1..Len(schedule_call.result.modules) :
           LET courses == schedule_call.result.modules[m].courses
           IN  /\ Len(courses) = 6
               /\ Len(OfType(courses, "mandatory")) = 1
               /\ Len(OfType(courses, "secondary")) = 4
               /\ Len(OfType(courses, "audit")) = 1

\* C23: within a module the course at 0-based position i is given the time
\* slot CLASS_TIMES[i mod 3]; so the slots of a module of at most 3 courses
\* are pairwise distinct and a module of more than 3 courses has two courses
\* in the same slot.
C23_RoundRobinSlots ==
    (Scheduled /\ schedule_call.result.raises = "none") =>
        \A m \in 1..Len(schedule_call.result.modules) :
            LET courses == schedule_call.result.modules[m].courses
            IN  /\ \A idx \in 1..Len(courses) :
                       /\ courses[idx].time_slot = CLASS_TIMES[((idx - 1) % 3) + 1].time
                       /\ courses[idx].slot_number = CLASS_TIMES[((idx - 1) % 3) + 1].slot
                /\ Len(courses) <= 3 =>
                       \A i, j \in 1..Len(courses) :
                           i # j => courses[i].time_slot # courses[j].time_slot
                /\ Len(courses) > 3 =>
                       \E i, j \in 1..Len(courses) :
                           i # j /\ courses[i].time_slot = courses[j].time_slot

\* a call returned a module of six courses, the fourth back in the first
\* slot, and a module of at most three courses
C23_Witness ==
    /\ Scheduled
    /\ schedule_call.result.raises = "none"
    /\ \E m, k \in 1..Len(schedule_call.result.modules) :
           /\ Len(schedule_call.result.modules[m].courses) = 6
           /\ schedule_call.result.modules[m].courses[4].slot_number = 1
           /\ Len(schedule_call.result.modules[k].courses) <= 3

-----------------------------------------------------------------------------
(* The smart planner page: the schedule is generated again on every render *)

\* render_enhanced_smart_planner: the page generates the schedule for the
\* student with the session's enrolled and completed lists and 4 modules;
\* hash(major) is the value of the interpreter process serving the render
RenderSmartPlanner ==
    /\ schedule_call = NoCall
    /\ \E p \in Profiles, h \in Hashes :
          LET enrolled == {enrolled_courses[i] : i \in 1..Len(enrolled_courses)}
          IN  schedule_call' =
                  [op |-> "generate_smart_schedule", student_profile |-> p,
                   enrolled_courses |-> enrolled, completed_courses |-> {},
                   limit_modules |-> 4, hash_major |-> h,
                   result |-> generate_smart_schedule(courses_df, p, enrolled, {}, 4, h)]
    /\ UNCHANGED <<courses_df, notSchedule>>

\* the page is rendered once more with nothing changed, by the same
\* interpreter process or, after a restart of the server, by another one
\* whose string hashes are salted anew
RerenderSmartPlanner ==
    /\ Scheduled
    /\ "again" \notin DOMAIN schedule_call
    /\ \E same_process \in BOOLEAN, h \in Hashes :
          /\ same_process => h = schedule_call.hash_major
          /\ schedule_call' =
                 [op |-> schedule_call.op,
                  student_profile |-> schedule_call.student_profile,
                  enrolled_courses |-> schedule_call.enrolled_courses,
                  completed_courses |-> schedule_call.completed_courses,
                  limit_modules |-> schedule_call.limit_modules,
                  hash_major |-> schedule_call.hash_major,
                  result |-> schedule_call.result,
                  same_process |-> same_process,
                  hash_again |-> h,
                  again |-> generate_smart_schedule(courses_df, schedule_call.student_profile,
                                                    schedule_call.enrolled_courses,
                                                    schedule_call.completed_courses,
                                                    schedule_call.limit_modules, h)]
    /\ UNCHANGED <<courses_df, notSchedule>>

NextPlanner ==
    \/ AppendSourceRow
    \/ RenderSmartPlanner
    \/ RerenderSmartPlanner
    \/ ScheduleReturn

SpecPlanner == InitIdle /\ [][NextPlanner]_vars

Rerendered == Scheduled /\ "again" \in DOMAIN schedule_call

\* C12: two calls of generate_smart_schedule with the same corpus, major,
\* program and lists return the same modules with the same courses in the
\* same order.
C12_SameScheduleAgain ==
    Rerendered => schedule_call.again = schedule_call.result

-----------------------------------------------------------------------------
(* Relevance scorer: _score_courses and _get_career_keywords *)

MaxScored == 2

career_map ==
    << <<"software engineer", <<"programming", "software", "development", "code",
                                "algorithms", "web", "api", "backend", "frontend">> >>,
       <<"data scientist", <<"data", "analytics", "machine learning", "statistics",
                             "python", "ai", "deep learning", "visualization">> >>,
       <<"cybersecurity analyst", <<"security", "network", "encryption", "hacking",
                                    "cyber", "forensics", "threat">> >>,
       <<"product manager", <<"product", "management", "strategy", "business",
                              "agile", "leadership">> >>,
       <<"ux designer", <<"design", "user", "interface", "experience", "visual",
                          "ui", "prototyping", "research">> >>,
       <<"data engineer", <<"data", "pipeline", "etl", "database", "big data",
                            "spark", "hadoop">> >>,
       <<"web developer", <<"web", "html", "css", "javascript", "react", "node",
                            "frontend">> >>,
       <<"business analyst", <<"business", "analytics", "strategy", "analysis",
                               "intelligence">> >> >>

default_career_keywords == <<"technology", "programming", "development">>

RECURSIVE career_keywords_from(_, _)
\* the loop over career_map.items() from entry k on
career_keywords_from(goal_lower, k) ==
    IF k > Len(career_map) THEN default_career_keywords
    ELSE IF Contains(goal_lower, career_map[k][1]) THEN career_map[k][2]
    ELSE career_keywords_from(goal_lower, k + 1)

_get_career_keywords(career_goal) == career_keywords_from(Lower(career_goal), 1)

RECURSIVE career_points_skills_only(_, _, _, _)
\* a loop that looks for the keywords in the skills and not in the description
career_points_skills_only(keywords, k, skills, desc) ==
    IF k > Len(keywords) THEN 0
    ELSE (IF Contains(skills, keywords[k]) THEN 3 ELSE 0)
            + career_points_skills_only(keywords, k + 1, skills, desc)

RECURSIVE career_points(_, _, _, _)
\* for keyword in career_keywords: if keyword in skills or keyword in desc
career_points(keywords, k, skills, desc) ==
    IF k > Len(keywords) THEN 0
    ELSE (IF Contains(skills, keywords[k]) \/ Contains(desc, keywords[k]) THEN 3 ELSE 0)
            + career_points(keywords, k + 1, skills, desc)

RECURSIVE word_points(_, _, _)
\* for word in query_words: if len(word) > 3 and word in course_text
word_points(query_words, k, course_text) ==
    IF k > Len(query_words) THEN 0
    ELSE (IF Len(query_words[k]) > 3 /\ Contains(course_text, query_words[k]) THEN 2 ELSE 0)
            + word_points(query_words, k + 1, course_text)

\* the course-type term with every type worth the same
flat_type_points(course) == 4

\* 6. course type priority
type_points(course) ==
    LET course_type == Get(course, "course_type", "secondary")
    IN  IF course_type = "mandatory" THEN 7
        ELSE IF course_type = "secondary" THEN 4
        ELSE 2

\* the body of the loop of _score_courses: the score of one course
course_score(course, major, career_goal, experience_level, program, query_arg) ==
    LET major_points ==
            IF Contains(Lower(course.category), Lower(major)) THEN 10 ELSE 0
        program_points ==
            IF Contains(Lower(Get(course, "program_name", "")), Lower(program))
            THEN 5 ELSE 0
        skills == Lower(Get(course, "skills_covered_str", ""))
        desc   == Lower(Get(course, "course_description", ""))
        career ==
            IF ~career_goal.is_none /\ career_goal.text # ""
            THEN career_points(_get_career_keywords(career_goal.text), 1, skills, desc)
            ELSE 0
        difficulty == Get(course, "estimated_difficulty", "Intermediate")
        level_points ==
            IF experience_level = "Beginner" /\ difficulty = "Beginner" THEN 4
            ELSE IF experience_level = "Intermediate"
                    /\ difficulty \in {"Beginner", "Intermediate"} THEN 4
            ELSE IF experience_level = "Advanced" THEN 2
            ELSE 0
        query_points ==
            IF ~query_arg.is_none /\ query_arg.text # ""
            THEN LET query_lower == Lower(query_arg.text)
                     course_text ==
                         Lower(course.course_name \o " " \o course.course_description
                               \o " " \o Get(course, "skills_covered_str", ""))
                 IN  (IF Contains(course_text, query_lower) THEN 8 ELSE 0)
                        + word_points(Split(query_lower), 1, course_text)
            ELSE 0
    IN  major_points + program_points + career + level_points + query_points
            + type_points(course)

\* _score_courses(courses, ...): the frames that
\* courses.sort_values('relevance_score', ascending=False) can return.  The
\* sort is the default quicksort, which fixes the order of the scores but
\* not the order of rows with equal scores.
_score_courses(courses, major, career_goal, experience_level, program, query_arg) ==
    LET n == Len(courses)
        scored ==
            SubSeq([i \in 1..n |->
                       [index |-> i - 1, course |-> courses[i],
                        relevance_score |->
                            course_score(courses[i], major, career_goal, experience_level,
                                         program, query_arg)]], 1, n)
        descending == {p \in Permutations(1..n) :
                          \A a, b \in 1..n :
                              a < b => scored[p[a]].relevance_score
                                          >= scored[p[b]].relevance_score}
    IN  {[k \in 1..n |-> scored[p[k]]] : p \in descending}

\* course records that differ in every field the scorer reads
ScoreBases ==
    { [category |-> "Computer Science", course_name |-> "Web Development",
       course_description |-> "learn web programming",
       skills_covered_str |-> "HTML, React", estimated_difficulty |-> "Beginner"],
      [category |-> "Data Science", course_name |-> "Statistics",
       course_description |-> "data analysis", skills_covered_str |-> "Python, Statistics",
       program_name |-> "Master's Degree in Data Science"] }

ScoreRows ==
    ScoreBases \cup {WithType(b, t) : b \in ScoreBases, t \in {"mandatory", "secondary", "audit"}}

\* the arguments of the callers: major, career goal, experience level,
\* program and query
ScoreCalls ==
    { [major |-> "Computer Science", career_goal |-> None, experience_level |-> "Beginner",
       program |-> "Bachelor's Degree", query |-> None],
      [major |-> "Computer Science", career_goal |-> Text("Web Developer"),
       experience_level |-> "Intermediate", program |-> "Master's Degree",
       query |-> Text("web programming")],
      [major |-> "Data Science", career_goal |-> Text("Astronaut"),
       experience_level |-> "Advanced", program |-> "Master's Degree",
       query |-> Text("learn data analysis")],
      [major |-> "Design", career_goal |-> Text("Senior Data Scientist"),
       experience_level |-> "Expert", program |-> "Bachelor's Degree",
       query |-> Text("Data data")],
      [major |-> "Data Science", career_goal |-> Text(""),
       experience_level |-> "Intermediate", program |-> "Master's Degree",
       query |-> Text("")] }

\* one more course in the frame handed to the scorer
AppendScoredCourse ==
    /\ advisor_call = NoCall
    /\ Len(courses_df) < MaxScored
    /\ \E r \in ScoreRows : courses_df' = Append(courses_df, r)
    /\ UNCHANGED <<advisor_call, advisor, notAdvisor>>

ScoreCourses ==
    /\ advisor_call = NoCall
    /\ \E c \in ScoreCalls :
          \E result \in _score_courses(courses_df, c.major, c.career_goal,
                                       c.experience_level, c.program, c.query) :
              advisor_call' =
                  [op |-> "_score_courses", courses |-> courses_df, args |-> c,
                   result |-> result]
    /\ UNCHANGED <<courses_df, advisor, notAdvisor>>

\* the caller has taken the result
AdvisorReturn ==
    /\ advisor_call # NoCall
    /\ advisor_call' = NoCall
    /\ UNCHANGED <<courses_df, advisor, notAdvisor>>

NextScore ==
    \/ AppendScoredCourse
    \/ ScoreCourses
    \/ AdvisorReturn

SpecScore == InitIdle /\ [][NextScore]_vars

-----------------------------------------------------------------------------
(* Claims about the relevance scorer *)

Scored == advisor_call.op = "_score_courses"

\* two course records that differ in course_type and in nothing else
DifferOnlyInType(c, d) ==
    /\ "course_type" \in DOMAIN c /\ "course_type" \in DOMAIN d
    /\ DOMAIN c = DOMAIN d
    /\ \A f \in DOMAIN c \ {"course_type"} : c[f] = d[f]
    /\ c.course_type # d.course_type

TypeRank(t) == CASE t = "mandatory" -> 3 [] t = "secondary" -> 2 [] t = "audit" -> 1

\* C14: of two course records that differ only in course_type, scored in one
\* call, the mandatory one scores more than the secondary one, and the
\* secondary one more than the audit one.
C14_TypeMonotone ==
    Scored =>
        \A i, j \in 1..Len(advisor_call.result) :
            LET a == advisor_call.result[i]
                b == advisor_call.result[j]
            IN  (DifferOnlyInType(a.course, b.course)
                 /\ TypeRank(a.course.course_type) > TypeRank(b.course.course_type))
                    => a.relevance_score > b.relevance_score

\* a secondary and an audit variant of one course were scored together
C14_Witness ==
    /\ Scored
    /\ \E i, j \in 1..Len(advisor_call.result) :
          /\ DifferOnlyInType(advisor_call.result[i].course, advisor_call.result[j].course)
          /\ advisor_call.result[i].course.course_type = "secondary"
          /\ advisor_call.result[j].course.course_type = "audit"

\* C15: the result is sorted by descending score, and rows with equal
\* scores keep the order they have in the input.
C15_StableDescending ==
    Scored =>
        \A i, j \in 1..Len(advisor_call.result) :
            i < j =>
                LET a == advisor_call.result[i]
                    b == advisor_call.result[j]
                IN  \/ a.relevance_score > b.relevance_score
                    \/ a.relevance_score = b.relevance_score /\ a.index < b.index

\* the keyword set of a career goal: that of the first entry of the career
\* table whose name the goal contains, the default set when there is none
CareerKeywordSet(goal) ==
    LET hits == {k \in 1..Len(career_map) : Contains(Lower(goal), career_map[k][1])}
    IN  IF hits = {}
        THEN {"technology", "programming", "development"}
        ELSE LET first == CHOOSE k \in hits : \A m \in hits : k <= m
             IN  {career_map[first][2][n] : n \in 1..Len(career_map[first][2])}

\* the six weighted factors of the score of one course
SixFactors(course, args) ==
    LET skills == Lower(Get(course, "skills_covered_str", ""))
        desc   == Lower(Get(course, "course_description", ""))
        text   == Lower(course.course_name \o " " \o course.course_description \o " "
                        \o Get(course, "skills_covered_str", ""))
        given(opt) == ~opt.is_none /\ opt.text # ""
        difficulty == Get(course, "estimated_difficulty", "Intermediate")
        words == Split(Lower(args.query.text))
    IN  << IF Contains(Lower(course.category), Lower(args.major)) THEN 10 ELSE 0,
           IF Contains(Lower(Get(course, "program_name", "")), Lower(args.program))
           THEN 5 ELSE 0,
           IF given(args.career_goal)
           THEN 3 * Cardinality({kw \in CareerKeywordSet(args.career_goal.text) :
                                    Contains(skills, kw) \/ Contains(desc, kw)})
           ELSE 0,
           CASE args.experience_level = "Beginner" /\ difficulty = "Beginner" -> 4
             [] args.experience_level = "Intermediate"
                    /\ difficulty \in {"Beginner", "Intermediate"} -> 4
             [] args.experience_level = "Advanced" -> 2
             [] OTHER -> 0,
           IF given(args.query)
           THEN (IF Contains(text, Lower(args.query.text)) THEN 8 ELSE 0)
                + 2 * Cardinality({k \in 1..Len(words) :
                                      Len(words[k]) > 3 /\ Contains(text, words[k])})
           ELSE 0,
           CASE Get(course, "course_type", "secondary") = "mandatory" -> 7
             [] Get(course, "course_type", "secondary") = "secondary" -> 4
             [] OTHER -> 2 >>

\* C16: the score of every course is a non-negative integer, the sum of the
\* six weighted factors (major +10, program +5, career keywords +3 each, level
\* alignment +4 or +2, query +8 and +2 per word, course type +7/+4/+2);
\* every input row is scored once and the input table is left as it was.
C16_ScoreIsSumOfFactors ==
    Scored =>
        /\ courses_df = advisor_call.courses
        /\ Len(advisor_call.result) = Len(advisor_call.courses)
        /\ \A i \in 1..Len(advisor_call.courses) :
               \E k \in 1..Len(advisor_call.result) :
                   /\ advisor_call.result[k].index = i - 1
                   /\ advisor_call.result[k].course = advisor_call.courses[i]
        /\ \A k \in 1..Len(advisor_call.result) :
               LET row == advisor_call.result[k]
                   f == SixFactors(row.course, advisor_call.args)
               IN  /\ row.relevance_score \in Nat
                   /\ row.relevance_score = f[1] + f[2] + f[3] + f[4] + f[5] + f[6]

\* a mandatory course was scored for its major, three career keywords (one
\* of them found in the description only), its level and a query it contains
C16_Witness ==
    /\ Scored
    /\ \E k \in 1..Len(advisor_call.result) :
          SixFactors(advisor_call.result[k].course, advisor_call.args) = <<10, 0, 9, 4, 10, 7>>
    /\ \E k \in 1..Len(advisor_call.result) :
          SixFactors(advisor_call.result[k].course, advisor_call.args)[2] = 5

-----------------------------------------------------------------------------
(* Recommendations: get_intelligent_recommendations, the intent handlers and
   LLMAdvisor.generate_response.

   advisor.table tells what self.courses_df is: "None" before load_data,
   "no_columns" for an empty frame without columns (pd.DataFrame()), "frame"
   for a frame with the loader's columns, whose rows are courses_df.  A
   narrative is kept as the name of the text template that produced it, an
   explanations dict as the set of its keys.  lecturers_df only feeds the
   narratives and the prompt, and is kept as whether it has rows. *)

MaxCached == 1

\* courses as the loader builds them, without the two columns it derives
\* from the row index
CatalogKinds ==
    << [category |-> "Computer Science", Level |-> "Bachelor", credits |-> 3,
        course_name |-> "Web Development",
        course_description |-> "Build Web Development skills.",
        skills_covered_str |-> "HTML/CSS, JavaScript, React",
        estimated_difficulty |-> "Intermediate", course_type |-> "secondary"],
       [category |-> "Computer Science", Level |-> "Bachelor", credits |-> 3,
        course_name |-> "Foundations of Programming",
        course_description |-> "Master Foundations of Programming.",
        skills_covered_str |-> "Programming, Algorithms, Logic",
        estimated_difficulty |-> "Beginner", course_type |-> "mandatory"],
       [category |-> "Data Science", Level |-> "Bachelor", credits |-> 3,
        course_name |-> "Statistics",
        course_description |-> "Explore Statistics with datasets.",
        skills_covered_str |-> "Data Analysis, Statistics, Python",
        estimated_difficulty |-> "Intermediate", course_type |-> "secondary"],
       [category |-> "Fintech", Level |-> "Master", credits |-> 3,
        course_name |-> "Blockchain Project",
        course_description |-> "Apply your skills in Blockchain Project.",
        skills_covered_str |-> "Critical Thinking, Analysis",
        estimated_difficulty |-> "Advanced", course_type |-> "mandatory"] >>

\* the table row of a course at 0-based index i
CatalogRow(i, kind) ==
    [f \in DOMAIN kind \cup {"course_id", "class_time"} |->
        CASE f = "course_id" -> generate_course_id(kind.category, i)
          [] f = "class_time" -> CLASS_SLOTS[(i % Len(CLASS_SLOTS)) + 1]
          [] OTHER -> kind[f]]

\* the table of the courses of the given kinds, in that order
Catalog(kinds) == [k \in 1..Len(kinds) |-> CatalogRow(k - 1, CatalogKinds[kinds[k]])]

\* the tables handed to load_data: an empty one, a small mixed one, and one
\* with seven courses of one program
Frames == { <<>>, Catalog(<<1, 2, 3, 4, 4>>), Catalog(<<1, 2, 1, 2, 1, 2, 1>>) }

\* student_profile dicts; a key may be missing
StudentProfiles ==
    { [major |-> "Computer Science", career_goal |-> "Web Developer",
       experience_level |-> "Beginner", program |-> "Bachelor's Degree"],
      [major |-> "Design"] }

\* the queries of the callers: none, and one or more for every intent
RecommendationQueries ==
    { None, Text("hello"), Text("study tips"), Text("what is mandatory"),
      Text("how long is bachelor"), Text("computer science"), Text("c++ courses"),
      Text("lecturers"), Text("morning classes"), Text("when is it"),
      Text("career advice"), Text("plan my modules"), Text("what if i skip class"),
      Text("need help"), Text("prepare for exams"), Text("prepare for programming"),
      Text("tell me about fintech"), Text("zz") }

\* limit: the default, and the value app.py passes
RecommendationLimits == {6, 10}

\* the keys of an explanations dict built from the rows of a frame
course_ids(df) == {df[k].course_id : k \in 1..Len(df)}

\* re.compile rejects the pattern: a repeat that follows a repeat or nothing
re_error(pat) ==
    \/ Contains(pat, "++") \/ Contains(pat, "**") \/ Contains(pat, "+*") \/ Contains(pat, "*+")
    \/ StartsWith(pat, "+") \/ StartsWith(pat, "*") \/ StartsWith(pat, "?")

\* Series.str.contains(pat, case=False, na=False) for one cell, pat being a
\* pattern without special characters
str_contains(cell, pat) == Contains(Lower(cell), Lower(pat))

\* Series.str.contains('|'.join(keywords), case=False, na=False) for one cell
str_contains_any(cell, keywords) ==
    \E k \in 1..Len(keywords) : str_contains(cell, keywords[k])

\* any(word in text for word in words)
any_in(words, text) == \E k \in 1..Len(words) : Contains(text, words[k])

\* the three values a handler or get_intelligent_recommendations returns
Returns(courses, explanations, narrative) ==
    [raises |-> "none", courses |-> courses, explanations |-> explanations,
     narrative |-> narrative]

Raises(exception) == [raises |-> exception]

\* self.courses_df[...] and self.courses_df['column'] when there is no frame
\* or no such column
subscript_error(table) == IF table = "None" THEN "TypeError" ELSE "KeyError"

\* self.courses_df[self.courses_df['category'].str.contains(major, case=False, na=False)]
in_category(df, major) == SelectSeq(df, LAMBDA c : str_contains(c.category, major))

\* _handle_unknown_query: an empty frame, no explanations, the
\* helpful-alternatives text
_handle_unknown_query(query_arg, major, career_goal) ==
    Returns(<<>>, {}, "unknown_query")

_handle_course_type_explanation(table, df, query_arg, major) ==
    IF table # "frame" THEN Raises(subscript_error(table))
    ELSE LET major_courses == head(in_category(df, major), 3)
         IN  Returns(major_courses, {}, "course_type_explanation")

program_durations ==
    {"Computer Science", "Data Science", "Cyber Security", "Front-End Development",
     "Front-end Development", "Interaction Design", "Digital Marketing",
     "High-Tech Entrepreneurship", "Digital Transformation", "Product Management",
     "Fintech", "Applied Data and Computer Science", "Computer Science Masters"}

_handle_program_duration_query(table, df, query_arg, major, program) ==
    IF major # "" /\ major \in program_durations /\ table # "frame"
    THEN Raises(subscript_error(table))
    ELSE Returns(<<>>, {}, "program_duration")

_handle_preparation_advice(table, df, query_arg, major) ==
    IF table = "None" THEN Raises("AttributeError")
    ELSE IF table = "no_columns" THEN Raises("KeyError")
    ELSE LET major_courses == head(in_category(df, major), 5)
         IN  Returns(major_courses, course_ids(major_courses), "preparation_advice")

common_words ==
    <<"course", "class", "learn", "study", "teach", "help", "show", "find", "about",
      "what", "how", "when", "where", "who">>

known_topics ==
    <<"machine learning", "data science", "computer science", "cybersecurity",
      "cyber security", "programming", "web", "development", "python", "java",
      "javascript", "database", "ai", "artificial", "software", "business", "design",
      "marketing", "frontend", "backend", "mobile">>

major_keywords ==
    << <<"business", <<"business", "entrepreneurship", "management", "mba">> >>,
       <<"data science", <<"data science", "data analytics", "analytics">> >>,
       <<"computer science", <<"computer science", "cs", "computing">> >>,
       <<"cybersecurity", <<"cybersecurity", "cyber security", "security", "infosec">> >>,
       <<"design", <<"design", "ux", "ui", "interaction design">> >>,
       <<"marketing", <<"marketing", "digital marketing", "social media">> >>,
       <<"software development", <<"software development", "software engineering",
                                   "programming">> >>,
       <<"web development", <<"web development", "web dev", "frontend", "backend",
                              "fullstack">> >>,
       <<"mobile", <<"mobile", "app development", "android", "ios">> >> >>

RECURSIVE first_mapped(_, _, _)
\* the first key of an ordered dict one of whose keywords is in the text,
\* "" when there is none
first_mapped(mapping, k, text) ==
    IF k > Len(mapping) THEN ""
    ELSE IF any_in(mapping[k][2], text) THEN mapping[k][1]
    ELSE first_mapped(mapping, k + 1, text)

\* the four-column search of _handle_general_info_query and
\* _search_relevant_courses
search_columns(df, pat) ==
    SelectSeq(df, LAMBDA c : \/ str_contains(c.course_name, pat)
                             \/ str_contains(c.course_description, pat)
                             \/ str_contains(c.skills_covered_str, pat)
                             \/ str_contains(c.category, pat))

_handle_general_info_query(table, df, query_arg, major, career_goal) ==
    LET query_lower == Strip(Lower(query_arg))
        has_common_word == any_in(common_words, query_lower)
        has_known_topic == any_in(known_topics, query_lower)
        target_major == first_mapped(major_keywords, 1, query_lower)
        found == search_columns(df, query_lower)
        major_specific == in_category(found, target_major)
        relevant_courses ==
            head(IF target_major # "" /\ found # <<>> /\ major_specific # <<>>
                 THEN major_specific ELSE found, 8)
    IN  IF Len(query_lower) < 3 THEN _handle_unknown_query(query_arg, major, career_goal)
        ELSE IF ~has_common_word /\ ~has_known_topic /\ Len(Split(query_arg)) <= 3
        THEN _handle_unknown_query(query_arg, major, career_goal)
        ELSE IF table # "frame" \/ re_error(query_lower)
        THEN _handle_unknown_query(query_arg, major, career_goal)
        ELSE IF relevant_courses = <<>>
        THEN _handle_unknown_query(query_arg, major, career_goal)
        ELSE Returns(relevant_courses, course_ids(relevant_courses), "general_info")

\* the lecturers' table is read, the course table is not
_handle_lecturer_query(query_arg, major) == Returns(<<>>, {}, "lecturer_info")

_handle_greeting(major, career_goal) == Returns(<<>>, {}, "greeting")

_handle_attendance_consequences(query_arg, major) ==
    Returns(<<>>, {}, "attendance_consequences")

_handle_student_issues(query_arg, major) == Returns(<<>>, {}, "student_issues")

general_topics ==
    <<"data science", "software", "software development", "machine learning", "ml",
      "web development", "web", "cybersecurity", "cyber", "business", "design",
      "marketing", "computer science", "programming">>

_handle_specific_class_preparation(table, df, query_arg, major) ==
    LET query_lower == Lower(query_arg)
    IN  IF any_in(general_topics, query_lower)
        THEN Returns(<<>>, {}, "topic_preparation")
        ELSE IF table = "None" THEN Raises("AttributeError")
        ELSE IF \E k \in 1..Len(df) : Contains(query_lower, Lower(df[k].course_name))
        THEN Returns(<<>>, {}, "course_preparation")
        ELSE Returns(<<>>, {}, "general_preparation")

\* the slot group _handle_schedule_query puts a class time into
time_group_of(time_slot) ==
    IF Contains(time_slot, "Morning") \/ Contains(time_slot, "9") THEN "morning"
    ELSE IF Contains(time_slot, "Afternoon") \/ Contains(time_slot, "1")
            \/ Contains(time_slot, "2") THEN "afternoon"
    ELSE "evening"

_handle_schedule_query(table, df, query_arg, major) ==
    LET query_lower == Lower(query_arg)
        time_filter ==
            IF Contains(query_lower, "morning") THEN "morning"
            ELSE IF Contains(query_lower, "afternoon") THEN "afternoon"
            ELSE IF Contains(query_lower, "evening") THEN "evening"
            ELSE "none"
        major_courses == head(in_category(df, major), 15)
        group == SelectSeq(major_courses,
                           LAMBDA c : time_group_of(c.class_time) = time_filter)
        listed == course_ids(head(group, 6))
        courses_to_return == SelectSeq(df, LAMBDA c : c.course_id \in listed)
        explanations == course_ids(major_courses)
    IN  IF table # "frame" THEN Raises(subscript_error(table))
        ELSE IF time_filter # "none"
        THEN Returns(courses_to_return, explanations, "schedule_" \o time_filter)
        ELSE Returns(head(major_courses, 9), explanations, "schedule_overview")

_handle_career_query(table, df, query_arg, major, career_goal) ==
    LET goal_keywords ==
            _get_career_keywords(IF career_goal # "" THEN career_goal ELSE query_arg)
        aligned ==
            head(SelectSeq(df, LAMBDA c :
                    \/ str_contains_any(c.skills_covered_str, goal_keywords)
                    \/ str_contains_any(c.course_description, goal_keywords)), 4)
        career_courses == IF aligned = <<>> THEN head(in_category(df, major), 4) ELSE aligned
    IN  IF table # "frame" THEN Raises(subscript_error(table))
        ELSE Returns(career_courses, course_ids(career_courses), "career_guidance")

_handle_module_planning_query(table, df, query_arg, major) ==
    LET of_major == head(in_category(df, major), 6)
        major_courses == IF of_major = <<>> THEN head(df, 6) ELSE of_major
        mandatory == OfType(major_courses, "mandatory")
        secondary == OfType(major_courses, "secondary")
        module_courses ==
            IF Len(mandatory) >= 2 THEN <<mandatory[1], mandatory[2]>>
            ELSE IF Len(mandatory) = 1
                 THEN IF secondary # <<>> THEN <<mandatory[1], secondary[1]>>
                      ELSE <<mandatory[1]>>
            ELSE IF Len(secondary) >= 2 THEN <<secondary[1], secondary[2]>>
            ELSE <<>>
    IN  IF table # "frame" THEN Raises(subscript_error(table))
        ELSE Returns(IF module_courses # <<>> THEN module_courses ELSE head(major_courses, 3),
                     course_ids(module_courses), "module_planning")

program_mappings ==
    << <<"Computer Science", <<"computer science", "cs", "computing">> >>,
       <<"Data Science", <<"data science", "data analytics", "analytics">> >>,
       <<"Cyber Security", <<"cyber security", "cybersecurity", "infosec", "security">> >>,
       <<"Front-End Development", <<"front-end development", "frontend development",
                                    "frontend", "front-end", "web development">> >>,
       <<"Interaction Design", <<"interaction design", "ux design", "ui design", "design">> >>,
       <<"Digital Marketing", <<"digital marketing", "marketing">> >>,
       <<"High-Tech Entrepreneurship", <<"entrepreneurship", "high-tech entrepreneurship",
                                         "business", "startup">> >>,
       <<"Digital Transformation", <<"digital transformation", "transformation">> >>,
       <<"Product Management", <<"product management", "pm">> >>,
       <<"Fintech", <<"fintech", "financial technology">> >>,
       <<"Applied Data and Computer Science", <<"applied data", "applied computer science">> >> >>

\* course_type_order, with fillna(4)
type_order(course) ==
    CASE course.course_type = "mandatory" -> 1
      [] course.course_type = "secondary" -> 2
      [] course.course_type = "audit" -> 3
      [] OTHER -> 4

\* df.sort_values('type_order'): the frames the default quicksort can return,
\* ascending and with rows of one type in any order
sorted_by_type(df) ==
    LET n == Len(df)
        ascending == {p \in Permutations(1..n) :
                         \A a, b \in 1..n :
                             a < b => type_order(df[p[a]]) <= type_order(df[p[b]])}
    IN  {[k \in 1..n |-> df[p[k]]] : p \in ascending}

\* the results of _handle_program_info_query, one for every order of the sort
_handle_program_info_query(table, df, query_arg, major, program) ==
    LET query_lower == Lower(query_arg)
        mapped == first_mapped(program_mappings, 1, query_lower)
        target_program ==
            IF mapped # "" THEN mapped ELSE IF program # "" THEN program ELSE major
        found == in_category(df, target_program)
    IN  IF table # "frame" THEN {Raises(subscript_error(table))}
        ELSE IF found = <<>> THEN {Returns(<<>>, {}, "program_not_found")}
        ELSE { Returns(head(program_courses, 15),
                       course_ids(head(OfType(program_courses, "mandatory"), 10))
                           \cup course_ids(head(OfType(program_courses, "secondary"), 10))
                           \cup course_ids(head(OfType(program_courses, "audit"), 5)),
                       "program_info") :
                   program_courses \in sorted_by_type(found) }

\* a row of the scored frame as a row of the returned frame: the course's
\* columns and its relevance_score
scored_row(row) ==
    [f \in DOMAIN row.course \cup {"relevance_score"} |->
        IF f = "relevance_score" THEN row.relevance_score ELSE row.course[f]]

\* the results of _handle_course_recommendation, one for every order the
\* scorer's sort can return; query_arg is None or a text.  Whatever the body
\* raises ends in the unknown-query handler.
_handle_course_recommendation(table, df, query_arg, major, career_goal, experience_level, program, limit) ==
    LET of_major == in_category(df, major)
        major_courses == IF of_major = <<>> THEN df ELSE of_major
    IN  IF table # "frame" \/ major_courses = <<>>
        THEN {_handle_unknown_query(query_arg, major, career_goal)}
        ELSE { LET top_courses == head([k \in 1..Len(scored) |-> scored_row(scored[k])], limit)
               IN  IF Len(top_courses) < 3
                   THEN _handle_unknown_query(query_arg, major, career_goal)
                   ELSE Returns(top_courses, course_ids(top_courses), "course_recommendation") :
                   scored \in _score_courses(major_courses, major, Text(career_goal),
                                             experience_level, program, query_arg) }

\* _expand_query: None and "" as they are, a text lowered, stripped and with
\* its abbreviations expanded
_expand_query(q) ==
    IF q.is_none \/ q.text = "" THEN q ELSE Text(expanded_query(Strip(Lower(q.text))))

\* _analyze_query_intent and _expand_query on the callers' queries, computed
\* once
analyzed_queries ==
    {[query |-> q, intent |-> _analyze_query_intent(q), expanded |-> _expand_query(q)] :
         q \in RecommendationQueries}

analyzed(q) == CHOOSE a \in analyzed_queries : a.query = q

\* the rule-based system of get_intelligent_recommendations: the intent of
\* the query and what the handler of that intent returns or raises
rule_based(table, df, student_profile, q, limit) ==
    LET major == Get(student_profile, "major", "Computer Science")
        career_goal == Get(student_profile, "career_goal", "")
        experience_level == Get(student_profile, "experience_level", "Beginner")
        program == Get(student_profile, "program", "Bachelor")
        expanded == analyzed(q).expanded
        query_intent == analyzed(q).intent
        results ==
            CASE query_intent = "preparation_advice" ->
                    {_handle_preparation_advice(table, df, expanded.text, major)}
              [] query_intent = "course_type_explanation" ->
                    {_handle_course_type_explanation(table, df, expanded.text, major)}
              [] query_intent = "program_duration" ->
                    {_handle_program_duration_query(table, df, expanded.text, major, program)}
              [] query_intent = "general_info" ->
                    {_handle_general_info_query(table, df, expanded.text, major, career_goal)}
              [] query_intent = "greeting" -> {_handle_greeting(major, career_goal)}
              [] query_intent = "lecturer_info" ->
                    {_handle_lecturer_query(expanded.text, major)}
              [] query_intent = "schedule_info" ->
                    {_handle_schedule_query(table, df, expanded.text, major)}
              [] query_intent = "career_guidance" ->
                    {_handle_career_query(table, df, expanded.text, major, career_goal)}
              [] query_intent = "module_planning" ->
                    {_handle_module_planning_query(table, df, expanded.text, major)}
              [] query_intent = "attendance_consequences" ->
                    {_handle_attendance_consequences(expanded.text, major)}
              [] query_intent = "student_issues" ->
                    {_handle_student_issues(expanded.text, major)}
              [] query_intent = "specific_class_preparation" ->
                    {_handle_specific_class_preparation(table, df, expanded.text, major)}
              [] query_intent = "program_info" ->
                    _handle_program_info_query(table, df, expanded.text, major, program)
              [] OTHER ->
                    _handle_course_recommendation(table, df, expanded, major, career_goal,
                                                  experience_level, program, limit)
    IN  {[intent |-> query_intent, result |-> r] : r \in results}

\* LLMAdvisor._search_relevant_courses, with its default limit of 8
_search_relevant_courses(table, df, query_text, student_profile) ==
    LET query_lower == Lower(query_text)
        major == Get(student_profile, "major", "")
        found == search_columns(df, query_lower)
        relevant_courses ==
            IF found = <<>> /\ major # "" THEN in_category(df, major) ELSE found
    IN  IF table # "frame" \/ df = <<>> THEN [raises |-> "none", courses |-> <<>>]
        ELSE IF re_error(query_lower) THEN Raises("re.error")
        ELSE [raises |-> "none", courses |-> head(relevant_courses, 8)]

\* LLMAdvisor._search_relevant_lecturers raises: the lecturers' table is
\* loaded with the course table and has rows
lecturer_search_raises(table, query_text) ==
    table # "None" /\ re_error(Lower(query_text))

\* LLMAdvisor._generate_cache_key, without the digest
_generate_cache_key(query_text, student_profile) ==
    Lower(query_text) \o Get(student_profile, "major", "")
        \o Get(student_profile, "career_goal", "")

\* the cache after an answer is stored; the entries it replaces are older
\* than cache_ttl
cache_with(cache, entry) ==
    (IF Cardinality(cache) < MaxCached
     THEN {e \in cache : e.key # entry.key} ELSE {}) \cup {entry}

\* what the text-generation backend does with a request
BackendOutcomes == {"answered", "error", "timeout"}

\* LLMAdvisor.generate_response, with caching and rate limiting enabled: what
\* happened at the backend, what is returned or raised, and the advisor after
\* the call
generate_response(a, df, query_text, student_profile) ==
    LET search == _search_relevant_courses(a.table, df, query_text, student_profile)
        cache_key == _generate_cache_key(query_text, student_profile)
        cached == {e \in a.cache : e.key = cache_key}
    IN  IF ~a.client
        THEN \* _generate_fallback_response
             IF search.raises # "none"
             THEN {[backend |-> "unconfigured", raises |-> search.raises, advisor |-> a]}
             ELSE {[backend |-> "unconfigured", raises |-> "none", response |-> "llm_fallback",
                    courses |-> search.courses, advisor |-> a]}
        ELSE IF search.raises # "none" \/ lecturer_search_raises(a.table, query_text)
        THEN {[backend |-> "not_asked", raises |-> "re.error", advisor |-> a]}
        ELSE IF cached # {}
        THEN {[backend |-> "cache_hit", raises |-> "none", response |-> "llm_answer",
               courses |-> e.courses, advisor |-> a] : e \in cached}
        ELSE IF a.window_full
        THEN {[backend |-> "rate_limited", raises |-> "none", response |-> "llm_rate_limit",
               courses |-> <<>>, advisor |-> a]}
        ELSE \* the request is counted, then sent
             { [backend |-> outcome, raises |-> "none",
                response |-> IF outcome = "answered" THEN "llm_answer" ELSE "llm_fallback",
                courses |-> search.courses,
                advisor |->
                    [a EXCEPT !.window_full = full,
                              !.cache = IF outcome = "answered"
                                        THEN cache_with(a.cache,
                                                 [key |-> cache_key, courses |-> search.courses])
                                        ELSE a.cache]] :
                   outcome \in BackendOutcomes, full \in BOOLEAN }

\* get_intelligent_recommendations: the path taken, the result and the
\* advisor after the call
get_intelligent_recommendations(a, df, student_profile, q, limit) ==
    LET rules(backend, after) ==
            {[path |-> "rule_based", backend |-> backend, intent |-> r.intent,
              result |-> r.result, advisor |-> after] :
                 r \in rule_based(a.table, df, student_profile, q, limit)}
    IN  IF a.use_llm /\ ~q.is_none /\ q.text # ""
        THEN UNION { IF g.raises # "none"
                     THEN rules(g.backend, g.advisor)
                     ELSE {[path |-> "llm", backend |-> g.backend, intent |-> "none",
                            result |-> Returns(g.courses, course_ids(g.courses), g.response),
                            advisor |-> g.advisor]} :
                         g \in generate_response(a, df, q.text, student_profile) }
        ELSE rules("not_used", a)

\* the advisors EnhancedAIAdvisor() can construct: without text generation,
\* with an LLMAdvisor that has no API key, with one that has a client
ConstructedAdvisors ==
    { [use_llm |-> u, client |-> c, window_full |-> FALSE, cache |-> {}, table |-> "None"] :
          u \in BOOLEAN, c \in BOOLEAN } \ { [use_llm |-> FALSE, client |-> TRUE,
                                             window_full |-> FALSE, cache |-> {},
                                             table |-> "None"] }

InitAdvisor ==
    /\ course_list = <<>>
    /\ conflict_call = NoCall
    /\ enrolled_courses = <<>>
    /\ student_data = <<>>
    /\ last_enroll = NoCall
    /\ query = Text("")
    /\ fragments = 0
    /\ intent = "none"
    /\ courses_df = <<>>
    /\ schedule_call = NoCall
    /\ advisor_call = NoCall
    /\ advisor \in ConstructedAdvisors
    /\ now = 0
    /\ llm_advisor = NewLLMAdvisor(FALSE)
    /\ llm_log = NoRequests

\* load_data(courses_df, lecturers_df, programs_df)
LoadData ==
    /\ advisor_call = NoCall
    /\ advisor.table = "None"
    /\ \E frame \in Frames, table \in {"no_columns", "frame"} :
          /\ table = "no_columns" => frame = <<>>
          /\ courses_df' = frame
          /\ advisor' = [advisor EXCEPT !.table = table]
    /\ UNCHANGED <<advisor_call, notAdvisor>>

GetIntelligentRecommendations ==
    /\ advisor_call = NoCall
    /\ \E student_profile \in StudentProfiles, q \in RecommendationQueries,
          limit \in RecommendationLimits :
          \E r \in get_intelligent_recommendations(advisor, courses_df, student_profile,
                                                   q, limit) :
              /\ advisor_call' =
                     [op |-> "get_intelligent_recommendations", table |-> advisor.table,
                      courses |-> courses_df, student_profile |-> student_profile,
                      query |-> q, limit |-> limit, path |-> r.path,
                      backend |-> r.backend, intent |-> r.intent, result |-> r.result]
              /\ advisor' = r.advisor
    /\ UNCHANGED <<courses_df, notAdvisor>>

\* rate_limit_window seconds without a request: the window is empty again
MinutePasses ==
    /\ advisor_call = NoCall
    /\ advisor.window_full
    /\ advisor' = [advisor EXCEPT !.window_full = FALSE]
    /\ UNCHANGED <<courses_df, advisor_call, notAdvisor>>

\* cache_ttl seconds pass: no entry of the cache is served any more
HourPasses ==
    /\ advisor_call = NoCall
    /\ advisor.cache # {}
    /\ advisor' = [advisor EXCEPT !.cache = {}]
    /\ UNCHANGED <<courses_df, advisor_call, notAdvisor>>

NextAdvisor ==
    \/ LoadData
    \/ GetIntelligentRecommendations
    \/ AdvisorReturn
    \/ MinutePasses
    \/ HourPasses

SpecAdvisor == InitAdvisor /\ [][NextAdvisor]_vars

Recommended == advisor_call.op = "get_intelligent_recommendations"

\* the results the rule-based system can give to the call on record
RuleBasedResults ==
    {r.result : r \in rule_based(advisor_call.table, advisor_call.courses,
                                 advisor_call.student_profile, advisor_call.query,
                                 advisor_call.limit)}

\* the call met a backend without an API key, one that raised an error or
\* timed out, or a full rate window
BackendFailed ==
    /\ Recommended
    /\ advisor_call.backend \in {"unconfigured", "error", "timeout", "rate_limited"}

\* C17: whenever the text-generation backend is unconfigured, raises an
\* error, times out or is rate-limited during get_intelligent_recommendations,
\* the result returned is the one of the rule-based path (the intent's
\* handler), never the backend's own output.
C17_BackendFailureFallsBack ==
    BackendFailed =>
        /\ advisor_call.path = "rule_based"
        /\ advisor_call.result \in RuleBasedResults

\* the intents whose handlers produce a course subset
CourseProducing ==
    {"course_recommendation", "general_info", "career_guidance", "schedule_info",
     "program_info", "module_planning"}

\* the result of the unknown-query handler
IsUnknownQueryResult(result) ==
    /\ result.courses = <<>>
    /\ result.explanations = {}
    /\ result.narrative = "unknown_query"

\* C18: empty-result policy.  Whenever a course-producing handler returns an
\* empty course subset, or the generic recommendation path fewer than three
\* courses, what the caller gets is the result of the unknown-query handler.
C18_EmptyResultIsUnknownQuery ==
    ( /\ Recommended
      /\ advisor_call.path = "rule_based"
      /\ advisor_call.intent \in CourseProducing
      /\ advisor_call.result.raises = "none"
      /\ \/ advisor_call.result.courses = <<>>
         \/ /\ advisor_call.intent = "course_recommendation"
            /\ Len(advisor_call.result.courses) < 3 )
        => IsUnknownQueryResult(advisor_call.result)

\* C19: empty-corpus robustness.  With an empty or missing course table
\* get_intelligent_recommendations returns, for every intent, an empty and
\* well-formed (courses, explanations, narrative) and does not raise.
C19_EmptyCorpusNeverRaises ==
    ( /\ Recommended
      /\ advisor_call.table # "frame" \/ advisor_call.courses = <<>> )
        => /\ advisor_call.result.raises = "none"
           /\ advisor_call.result.courses = <<>>
           /\ advisor_call.result.explanations = {}

\* C20: the course subset get_intelligent_recommendations returns has at most
\* limit courses, for every profile, query and intent.
C20_AtMostLimitCourses ==
    (Recommended /\ advisor_call.result.raises = "none")
        => Len(advisor_call.result.courses) <= advisor_call.limit

\* C26: for every result of the rule-based path of
\* get_intelligent_recommendations, every course of the returned subset has
\* an entry in the explanations map under its course id.
C26_EveryCourseExplained ==
    ( /\ Recommended
      /\ advisor_call.path = "rule_based"
      /\ advisor_call.result.raises = "none" )
        => \A i \in 1..Len(advisor_call.result.courses) :
               advisor_call.result.courses[i].course_id \in advisor_call.result.explanations

-----------------------------------------------------------------------------
(* Course-to-lecturer map: _map_lecturers_to_courses *)

MaxLecturers == 3

\* rows of the lecturers file: Name, Title, Program
LecturerKinds ==
    << [Name |-> "Ann", Title |-> "Web Developer @ Acme", Program |-> "Computer Science"],
       [Name |-> "Eve", Title |-> "Web Engineer", Program |-> "Computer Science"],
       [Name |-> "Cy", Title |-> "Professor of Computer Science", Program |-> "Computer Science"],
       [Name |-> "Dee", Title |-> "Designer", Program |-> "Design"],
       [Name |-> "Fay", Title |-> "Analyst", Program |-> "Data Analysis"] >>

\* the row _process_lecturers builds from a file row at 0-based index i
ProcessedLecturer(i, src) ==
    [lecturer_id     |-> "L" \o ZFill(Str(i + 1), 4),
     name            |-> src.Name,
     job_title       |-> src.Title,
     expertise_areas |-> src.Program \o ", Technology Education, Industry Practice"]

\* the lecturer tables: the processed rows of every file of 1..MaxLecturers rows
LecturerTables ==
    { [k \in 1..Len(kinds) |-> ProcessedLecturer(k - 1, LecturerKinds[kinds[k]])] :
          kinds \in UNION { [1..m -> 1..Len(LecturerKinds)] : m \in 1..MaxLecturers } }

\* s.split(',')
RECURSIVE SplitComma(_)
SplitComma(s) ==
    IF Contains(s, ",")
    THEN <<SubSeq(s, 1, Find(s, ",") - 1)>> \o SplitComma(SubSeq(s, Find(s, ",") + 1, Len(s)))
    ELSE <<s>>

\* the keyword-overlap score of a lecturer for a course
lecturer_score(course, lecturer) ==
    LET course_skills == Lower(Get(course, "skills_covered_str", ""))
        course_category == Lower(Get(course, "category", ""))
        course_name == Lower(Get(course, "course_name", ""))
        expertise == Lower(Get(lecturer, "expertise_areas", ""))
        job_title == Lower(Get(lecturer, "job_title", ""))
        skills == SplitComma(course_skills)
        words == Split(course_name)
    IN  3 * Cardinality({k \in 1..Len(skills) :
                            Strip(skills[k]) # "" /\ Contains(expertise, Strip(skills[k]))})
        + (IF \E w \in 1..Len(words) : Contains(job_title, words[w]) THEN 2 ELSE 0)
        + (IF Contains(expertise, course_category) \/ Contains(job_title, course_category)
           THEN 2 ELSE 0)

\* a comparison that lets a later lecturer with the same score take over
better_or_equal(score, best_score) == score >= best_score

\* if score > best_score
better(score, best_score) == score > best_score

\* the loop over the lecturers from row k on: the index of best_match (0 for
\* None) when it ends
RECURSIVE best_match(_, _, _, _, _)
best_match(course, lecturers, k, best, best_score) ==
    IF k > Len(lecturers) THEN best
    ELSE LET score == lecturer_score(course, lecturers[k])
         IN  IF better(score, best_score)
             THEN best_match(course, lecturers, k + 1, k, score)
             ELSE best_match(course, lecturers, k + 1, best, best_score)

\* course_lecturer_map after _map_lecturers_to_courses on a new advisor: the
\* lecturer_id under each course_id that got an entry (a later row with the
\* same course_id overwrites an earlier one)
_map_lecturers_to_courses(courses, lecturers) ==
    LET matched == {c \in 1..Len(courses) : best_match(courses[c], lecturers, 1, 0, 0) # 0}
        ids == {courses[c].course_id : c \in matched}
    IN  [id \in ids |->
            LET last == CHOOSE c \in matched :
                            /\ courses[c].course_id = id
                            /\ \A d \in matched : courses[d].course_id = id => d <= c
            IN  lecturers[best_match(courses[last], lecturers, 1, 0, 0)].lecturer_id]

\* the course tables handed to load_data together with lecturers
LecturerFrames == { Catalog(<<1, 2, 3, 4>>), Catalog(<<3, 1>>) }

\* load_data(courses_df, lecturers_df) on a new advisor, which maps the
\* lecturers to the courses
LoadLecturerData ==
    /\ advisor_call = NoCall
    /\ advisor.table = "None"
    /\ \E frame \in LecturerFrames, lecturers \in LecturerTables :
          /\ courses_df' = frame
          /\ advisor' = [advisor EXCEPT !.table = "frame"]
          /\ advisor_call' =
                 [op |-> "load_data", lecturers_df |-> lecturers,
                  course_lecturer_map |-> _map_lecturers_to_courses(frame, lecturers)]
    /\ UNCHANGED notAdvisor

NextLecturerMap ==
    \/ LoadLecturerData
    \/ AdvisorReturn

SpecLecturerMap == InitAdvisor /\ [][NextLecturerMap]_vars

Mapped == advisor_call.op = "load_data"

\* the scores of the rows of the lecturer table on record for a course
LecturerScores(course) ==
    [k \in 1..Len(advisor_call.lecturers_df) |->
        lecturer_score(course, advisor_call.lecturers_df[k])]

\* C28: the map built at load time gives each course at most one lecturer,
\* the one with the greatest keyword-overlap score; of several lecturers
\* with the greatest score the first in load order is kept, and a course
\* for which every lecturer scores 0 has no entry.
C28_FirstBestLecturer ==
    Mapped =>
        \A c \in 1..Len(courses_df) :
            LET scores == LecturerScores(courses_df[c])
                id == courses_df[c].course_id
                map == advisor_call.course_lecturer_map
            IN  IF \A k \in 1..Len(scores) : scores[k] = 0
                THEN id \notin DOMAIN map
                ELSE /\ id \in DOMAIN map
                     /\ \E k \in 1..Len(scores) :
                            /\ map[id] = advisor_call.lecturers_df[k].lecturer_id
                            /\ \A j \in 1..Len(scores) : scores[j] <= scores[k]
                            /\ \A j \in 1..(k - 1) : scores[j] < scores[k]

\* a load where two lecturers tie for the greatest score of a course behind a
\* lecturer with a smaller one, and another course gets no entry
C28_Witness ==
    /\ Mapped
    /\ \E c, d \in 1..Len(courses_df) :
           LET scores == LecturerScores(courses_df[c])
           IN  /\ Len(scores) = 3
               /\ 0 < scores[1] /\ scores[1] < scores[2] /\ scores[2] = scores[3]
               /\ advisor_call.course_lecturer_map[courses_df[c].course_id]
                      = advisor_call.lecturers_df[2].lecturer_id
               /\ courses_df[d].course_id \notin DOMAIN advisor_call.course_lecturer_map

-----------------------------------------------------------------------------
(* Rate limiting of the text-generation backend: LLMAdvisor._check_rate_limit *)

\* the most generate_response calls that pass the limiter in one behaviour
MaxRequests == 22
\* the last reading of the clock
MaxClock == 62

rate_limit_window == 60
max_requests_per_window == 20
cache_ttl == 3600

\* the seconds between two readings of the clock
ClockSteps == {30, 31}

\* deque(maxlen=...).append(x)
deque_append(d, x, maxlen) ==
    IF Len(d) >= maxlen THEN Append(Tail(d), x) ELSE Append(d, x)

\* while self.request_timestamps and current_time - self.request_timestamps[0] > window: popleft()
RECURSIVE popleft_expired(_, _)
popleft_expired(request_timestamps, current_time) ==
    IF request_timestamps # <<>> /\ current_time - Head(request_timestamps) > rate_limit_window
    THEN popleft_expired(Tail(request_timestamps), current_time)
    ELSE request_timestamps

\* a limit test that lets one request too many through
over_limit(request_timestamps) == Len(request_timestamps) > max_requests_per_window

\* if len(self.request_timestamps) >= self.max_requests_per_window
at_limit(request_timestamps) == Len(request_timestamps) >= max_requests_per_window

\* _check_rate_limit at current_time: what it returns and request_timestamps
\* after it
_check_rate_limit(request_timestamps, current_time) ==
    LET kept == popleft_expired(request_timestamps, current_time)
    IN  IF at_limit(kept)
        THEN [ok |-> FALSE, request_timestamps |-> kept]
        ELSE [ok |-> TRUE,
              request_timestamps |-> deque_append(kept, current_time, max_requests_per_window)]

\* the advisor is built with or without an API key
InitLimiter ==
    /\ course_list = <<>>
    /\ conflict_call = NoCall
    /\ enrolled_courses = <<>>
    /\ student_data = <<>>
    /\ last_enroll = NoCall
    /\ query = Text("")
    /\ fragments = 0
    /\ intent = "none"
    /\ courses_df = <<>>
    /\ schedule_call = NoCall
    /\ advisor_call = NoCall
    /\ advisor = RuleBasedAdvisor
    /\ now = 0
    /\ llm_advisor \in {NewLLMAdvisor(has_key) : has_key \in BOOLEAN}
    /\ llm_log = NoRequests

\* the record of a generate_response call made at the current time
Request(outcome) ==
    [op |-> "generate_response", outcome |-> outcome, time |-> now,
     timestamps_before |-> llm_advisor.request_timestamps,
     api_calls_before |-> Len(llm_log.api_calls)]

\* generate_response without a client: the fallback response
RespondUnconfigured ==
    /\ ~llm_advisor.client
    /\ llm_log' = [llm_log EXCEPT !.last = Request("unconfigured")]
    /\ UNCHANGED <<now, llm_advisor, notLimiter>>

\* generate_response for a query whose answer is in the cache and younger
\* than cache_ttl: returned before the limiter is asked
RespondFromCache ==
    /\ llm_advisor.client
    /\ llm_advisor.cached
    /\ now < cache_ttl
    /\ llm_log' = [llm_log EXCEPT !.last = Request("cache_hit")]
    /\ UNCHANGED <<now, llm_advisor, notLimiter>>

\* generate_response for a query that is not in the cache, refused by the
\* limiter
RespondRateLimited ==
    /\ llm_advisor.client
    /\ LET check == _check_rate_limit(llm_advisor.request_timestamps, now)
       IN  /\ ~check.ok
           /\ llm_advisor' = [llm_advisor EXCEPT !.request_timestamps = check.request_timestamps]
           /\ llm_log' = [llm_log EXCEPT !.last = Request("rate_limited")]
    /\ UNCHANGED <<now, notLimiter>>

\* generate_response for a query that is not in the cache, let through by
\* the limiter: chat.completions.create is called and answers or raises
RespondFromBackend ==
    /\ llm_advisor.client
    /\ Len(llm_log.passed) < MaxRequests
    /\ LET check == _check_rate_limit(llm_advisor.request_timestamps, now)
       IN  /\ check.ok
           /\ \E outcome \in {"answered", "error"} :
                 /\ llm_advisor' =
                        [llm_advisor EXCEPT !.request_timestamps = check.request_timestamps,
                                            !.cached = @ \/ outcome = "answered"]
                 /\ llm_log' = [last |-> Request(outcome),
                                passed |-> Append(llm_log.passed, now),
                                api_calls |-> Append(llm_log.api_calls, now)]
    /\ UNCHANGED <<now, notLimiter>>

\* time passes between two calls
ClockAdvances ==
    /\ \E step \in ClockSteps :
          /\ now + step <= MaxClock
          /\ now' = now + step
    /\ UNCHANGED <<llm_advisor, llm_log, notLimiter>>

NextLimiter ==
    \/ RespondUnconfigured
    \/ RespondFromCache
    \/ RespondRateLimited
    \/ RespondFromBackend
    \/ ClockAdvances

SpecLimiter == InitLimiter /\ [][NextLimiter]_vars

\* of the times in the sequence, no max_requests_per_window + 1 lie within
\* rate_limit_window seconds of one another
WithinLimit(times) ==
    \A i, j \in 1..Len(times) :
        j - i >= max_requests_per_window => times[j] - times[i] > rate_limit_window

\* C29: over any sequence of generate_response calls at most 20 requests
\* pass _check_rate_limit, and at most 20 API calls are made, within any 60
\* seconds; a request the limiter rejects makes no API call and records no
\* timestamp.
C29_AtMostTwentyPerWindow ==
    /\ WithinLimit(llm_log.passed)
    /\ WithinLimit(llm_log.api_calls)
    /\ Len(llm_log.api_calls) <= Len(llm_log.passed)
    /\ llm_log.last.op = "generate_response" /\ llm_log.last.outcome = "rate_limited"
           => /\ Len(llm_log.api_calls) = llm_log.last.api_calls_before
              /\ llm_advisor.request_timestamps = llm_log.last.timestamps_before

\* the 21st request was rejected 60 seconds after the first 20 had passed
C29_Witness ==
    /\ llm_log.last.op = "generate_response"
    /\ llm_log.last.outcome = "rate_limited"
    /\ llm_log.last.time = rate_limit_window
    /\ Len(llm_log.passed) = max_requests_per_window
    /\ \A i \in 1..Len(llm_log.passed) : llm_log.passed[i] = 0

-----------------------------------------------------------------------------
(* The two conflict operations on a list built by checked additions *)

\* a caller adds the candidate that check_timetable_conflict has just
\* reported free of conflicts
AddChecked ==
    /\ conflict_call.op = "check"
    /\ ~conflict_call.result[1]
    /\ Len(course_list) < MaxCourses
    /\ course_list' = Append(course_list, conflict_call.new_course)
    /\ conflict_call' = NoCall
    /\ UNCHANGED notConflict

\* a caller runs get_all_timetable_conflicts on the list together with the
\* candidate that check_timetable_conflict has just been asked about
ScanWithCandidate ==
    /\ conflict_call.op = "check"
    /\ LET courses == Append(conflict_call.enrolled, conflict_call.new_course)
       IN  conflict_call' = [op |-> "scan_with", courses |-> courses,
                             check |-> conflict_call.result,
                             result |-> get_all_timetable_conflicts(courses)]
    /\ UNCHANGED <<course_list, notConflict>>

NextAgree ==
    \/ CheckTimetableConflict
    \/ AddChecked
    \/ ScanWithCandidate
    \/ GetAllTimetableConflicts
    \/ NewCourseList

SpecAgree == InitIdle /\ [][NextAgree]_vars

\* C30: a list built by adding candidates one at a time, each only when
\* check_timetable_conflict(current list, candidate) reports no conflict, has
\* no conflicts according to get_all_timetable_conflicts; and whenever
\* check_timetable_conflict reports a conflict for a candidate,
\* get_all_timetable_conflicts on the current list plus the candidate is
\* not empty.
C30_ConflictOperationsAgree ==
    /\ get_all_timetable_conflicts(course_list) = <<>>
    /\ conflict_call.op = "scan" => conflict_call.result = <<>>
    /\ conflict_call.op = "scan_with" /\ conflict_call.check[1]
           => conflict_call.result # <<>>

\* both slots are taken by checked additions, a candidate for a taken slot
\* was reported in conflict and the scan with it was made
C30_Witness ==
    /\ conflict_call.op = "scan_with"
    /\ conflict_call.check[1]
    /\ Len(conflict_call.result) = 1
    /\ Len(course_list) = 3
    /\ \E i, j, k \in 1..3 :
          /\ SlotOf(course_list[i]) = CLASS_SLOTS[1]
          /\ SlotOf(course_list[j]) = CLASS_SLOTS[2]
          /\ SlotOf(course_list[k]) = ""

=============================================================================
